---------------------------- MODULE Spec2Model ----------------------------
(***************************************************************************)
(* Grid trading bot (trahn-trade-backend): the bot service and its tick    *)
(* loop, the S/R scheduler, the paper wallet and the grid_state            *)
(* repository.                                                             *)
(*                                                                         *)
(* Units.  Floating point amounts are scaled integers:                     *)
(*   ETH amounts    micro-ETH   (0.005 ETH = 5000)                         *)
(*   USDC amounts   milli-USDC  (100 USDC  = 100000)                       *)
(*   prices         whole USDC per ETH                                     *)
(*   slippage       permille    (0.4 percent = 4)                          *)
(*   P&L percent    tenths of a percent                                    *)
(* Products that the code rounds in binary floating point are rounded      *)
(* down here; the inputs below are chosen so the divisions are exact.      *)
(*                                                                         *)
(* Goroutines interleave at their blocking calls (HTTP, database, channel  *)
(* operations): one action is the code between two such calls.             *)
(***************************************************************************)
EXTENDS Integers, Sequences, FiniteSets, TLC

VARIABLES
  \* ---- process (cmd/server main) ------------------------------------
  mainPc,          \* position of main
  ctxDone,         \* the root context is cancelled (SIGINT/SIGTERM)
  panicked,        \* the process died on a runtime panic
  \* ---- bot.Service / bot.GridBot ------------------------------------
  paper,           \* cfg.PaperTradingEnabled
  svcBot,          \* Service.bot # nil
  Grid,            \* GridBot.Grid
  BasePrice,       \* GridBot.BasePrice
  LastETHPrice,    \* GridBot.LastETHPrice
  priceRec,        \* the last price given to priceRepo.Record (0: none)
  TradesExecuted,  \* GridBot.TradesExecuted
  running,         \* GridBot.running
  stopCloses,      \* number of close(b.stopCh) executed
  rpcCloses,       \* number of ethClient.Close() executed
  wallet,          \* GridBot.paperWallet
  \* ---- the Run goroutine --------------------------------------------
  runPc,           \* position of GridBot.Run / tick
  curPrice,        \* tick's local price
  trig,            \* tick's local triggered *GridLevel
  tickErr,         \* outcome of executeTrade in the current tick
  tickerPending,   \* ticker.C holds an undelivered event
  \* ---- InitializeGrid activations (by Run, by the scheduler) ---------
  igPc,            \* actor -> position inside InitializeGrid
  igCenter,        \* actor -> local center
  igMid,           \* actor -> local sr.Midpoint
  \* ---- persistent store as the bot sees it ---------------------------
  dbState,         \* the active grid_state row: filled levels, trades
  dbTrades,        \* rows of trade_history of the current trading day
  \* ---- history ------------------------------------------------------
  swaps,           \* swaps executed (paper or live)
  tripped,         \* PortfolioCheck has tripped
  rebuilds,        \* rebuilds the scheduler has asked for
  igBefore,        \* what Service.InitializeGrid found when it was called
  \* ---- bot.Service with several Start calls ---------------------------
  sBot,            \* Service.bot: 0 (nil) or the bot's number
  sNext,           \* bots created so far
  bPc,             \* bot -> position of its Run goroutine
  bRunning,        \* bot -> GridBot.running
  bStopCloses,     \* bot -> number of close(b.stopCh)
  \* ---- grid_state table, concurrent Save ------------------------------
  rows,            \* committed rows: row id -> is_active
  txPc,            \* client -> position inside GridStateRepo.Save
  txSnap,          \* client -> rows its UPDATE statement saw as active
  txOff,           \* client -> rows it has set inactive (uncommitted)
  saved,           \* number of Saves that committed
  \* ---- paper wallet alone ---------------------------------------------
  pw,              \* a PaperWallet
  pwPrev,          \* number of trades before the last swap
  \* ---- scheduler.SRScheduler ------------------------------------------
  schRunning,      \* SRScheduler.running
  schChans,        \* the stop channels made so far: closed?
  schInit,         \* one-shot fetch goroutines: position
  schTick,         \* ticker goroutines: position
  schManual,       \* FetchNow calls in flight
  schEvent,        \* ticker goroutines: an event waits in ticker.C
  schWait,         \* ticker goroutines: the stop channel a blocked select
                   \* waits on (0: not blocked)
  schLast,         \* the last call made on the scheduler
  \* ---- one fetchAndProcess of the scheduler ----------------------------
  fp,              \* the call's position and locals
  srRows,          \* the rows of support_resistance_history, oldest first
  fetches,         \* calls of fetchAndProcess made so far
  \* ---- the scheduler's view of the bot --------------------------------
  snap,            \* the BotState value the scheduler holds
  \* ---- functions taken alone ------------------------------------------
  pure,            \* one call: function, arguments, result
  \* ---- the clients of the outside services ----------------------------
  rt,              \* one call of httputil.Do: position, locals, context
  dune,            \* a DuneClient: cache, position of a fetch
  \* ---- the paper wallet and its columns of grid_state ------------------
  gsTable,         \* the rows of grid_state, oldest first
  pwMem,           \* the process and its PaperWallet
  \* ---- the grid engine over successive ticks ---------------------------
  eng              \* a grid and the last fill made in it

botVars == <<mainPc, ctxDone, panicked, paper, svcBot, Grid, BasePrice,
             LastETHPrice, priceRec, TradesExecuted, running, stopCloses,
             rpcCloses,
             wallet, runPc, curPrice, trig, tickErr, tickerPending, igPc,
             igCenter, igMid, dbState, dbTrades, swaps, tripped, rebuilds,
             igBefore>>
startVars == <<sBot, sNext, bPc, bRunning, bStopCloses>>
saveVars == <<rows, txPc, txSnap, txOff, saved>>
paperVars == <<pw, pwPrev>>
schedVars == <<schRunning, schChans, schInit, schTick, schManual, schEvent,
               schWait, schLast>>
fetchVars == <<fp, srRows, fetches>>
snapVars == <<snap>>
pureVars == <<pure>>
clientVars == <<rt, dune>>
walletVars == <<gsTable, pwMem>>
engineVars == <<eng>>
vars == <<botVars, startVars, saveVars, paperVars, schedVars, fetchVars,
          snapVars, pureVars, clientVars, walletVars, engineVars>>

-----------------------------------------------------------------------------
(* Configuration (config.Load).  The values are one configuration chosen   *)
(* so that every branch of the tick is taken.                              *)

GridLevels == 2
GridSpacingPercent == 25
AmountPerGrid == 100
MaxPositionSizeUSD == 110
MaxDailyTrades == 1
StopLossPercent == 2
TakeProfitPercent == 0
PaperInitialETH == 100000
PaperInitialUSDC == 200000
PaperSlippagePermille == 5
defaultPaperGasCost == 5000
MinSanePrice == 100
MaxSanePrice == 100000

(* Bounds of the model. *)
MaxTrades == 2
MaxRebuilds == 1
MaxBots == 3
MaxRows == 3
MaxPaperTrades == 3
MaxStarts == 2
MaxManual == 1
MaxFetches == 2
MaxGridLen == 3

\* SRSchedulerConfig.SRChangeThreshold, percent, as main sets it
SRChangeThreshold == 5

\* httputil: DefaultRetry.MaxAttempts; BaseDelay and MaxDelay of a call
DefaultMaxAttempts == 3
RetryBaseDelay == 1
RetryMaxDelay == 4

\* DuneClient: hours the cache lives when RefreshHours is not positive
DefaultRefreshHours == 48

\* hours of clock and remote queries of a DuneClient that are explored
MaxClock == 3
MaxQueries == 3

(* What the providers may return. *)
Prices == {50, 1500, 2500}
Midpoints == {2000}
\* randomSlippage(max) lies in [0, max): the two ends of the range.  The bot's
\* runs take the largest one.
MaxSlip == PaperSlippagePermille - 1
SlipPermille == {0, MaxSlip}

NoLevel == 0 - 1

-----------------------------------------------------------------------------
(* strategy: the grid engine *)

RECURSIVE Pow(_, _)
Pow(b, e) == IF e = 0 THEN 1 ELSE b * Pow(b, e - 1)

\* center * (1 + spacing/100)^i
LevelPrice(center, spacing, i) ==
  IF i >= 0
  THEN (center * Pow(100 + spacing, i)) \div Pow(100, i)
  ELSE (center * Pow(100, 0 - i)) \div Pow(100 + spacing, 0 - i)

NewLevel(center, spacing, amount, i) ==
  LET p == LevelPrice(center, spacing, i)
  IN [index |-> 0, price |-> p,
      side |-> IF i < 0 THEN "buy" ELSE "sell",
      quantity |-> IF p > 0 THEN (amount * 1000000) \div p ELSE 0,
      filled |-> FALSE, filledAt |-> 0, txHash |-> 0]

\* insertion of one level into a sequence sorted by price
RECURSIVE InsertByPrice(_, _)
InsertByPrice(l, s) ==
  IF s = <<>> THEN <<l>>
  ELSE IF l.price < Head(s).price THEN <<l>> \o s
  ELSE <<Head(s)>> \o InsertByPrice(l, Tail(s))

RECURSIVE SortByPrice(_)
SortByPrice(s) ==
  IF s = <<>> THEN <<>> ELSE InsertByPrice(Head(s), SortByPrice(Tail(s)))

\* a generation that keeps the center level for an even count
RECURSIVE GenLevelsWithCenter(_, _, _, _, _, _)
GenLevelsWithCenter(center, spacing, amount, i, half, even) ==
  IF i > half THEN <<>>
  ELSE <<NewLevel(center, spacing, amount, i)>>
         \o GenLevelsWithCenter(center, spacing, amount, i + 1, half, even)

RECURSIVE GenLevels(_, _, _, _, _, _)
GenLevels(center, spacing, amount, i, half, even) ==
  IF i > half THEN <<>>
  ELSE IF i = 0 /\ even
       THEN GenLevels(center, spacing, amount, i + 1, half, even)
  ELSE <<NewLevel(center, spacing, amount, i)>>
         \o GenLevels(center, spacing, amount, i + 1, half, even)

\* The result is <<>> when the code returns an error.
CalculateGridLevels(center, count, spacing, amount) ==
  IF center <= 0 \/ count < 2 \/ spacing <= 0 \/ amount <= 0 THEN <<>>
  ELSE LET half == count \div 2
           even == (count % 2 = 0)
           g == SortByPrice(GenLevels(center, spacing, amount,
                                      0 - half, half, even))
       IN [k \in 1..Len(g) |-> [g[k] EXCEPT !.index = k - 1]]

\* a level test that does not look at Filled
TriggersFilledToo(price, l) ==
  \/ l.side = "buy" /\ price <= l.price
  \/ l.side = "sell" /\ price >= l.price

Triggers(price, l) ==
  /\ ~l.filled
  /\ \/ l.side = "buy" /\ price <= l.price
     \/ l.side = "sell" /\ price >= l.price

\* the loop of FindTriggeredLevel from position k on
RECURSIVE ScanLevels(_, _, _)
ScanLevels(price, grid, k) ==
  IF k > Len(grid) THEN NoLevel
  ELSE IF Triggers(price, grid[k]) THEN grid[k].index
  ELSE ScanLevels(price, grid, k + 1)

\* index of the first triggered level, NoLevel when there is none
FindTriggeredLevel(price, grid) == ScanLevels(price, grid, 1)

\* an opposite index taken on the wrong side
GetOppositeLevelIndexSwapped(side, index, gridLength) ==
  LET idx == IF side = "buy" THEN index - 1 ELSE index + 1
  IN IF idx >= 0 /\ idx < gridLength THEN idx ELSE NoLevel

GetOppositeLevelIndex(side, index, gridLength) ==
  LET idx == IF side = "buy" THEN index + 1 ELSE index - 1
  IN IF idx >= 0 /\ idx < gridLength THEN idx ELSE NoLevel

\* GridBot.resetOppositeLevel on grid, for a filled level of that side and
\* index: the grid it leaves
resetOppositeLevel(grid, side, index) ==
  LET idx == GetOppositeLevelIndex(side, index, Len(grid))
  IN IF idx # NoLevel /\ grid[idx + 1].filled
     THEN [grid EXCEPT ![idx + 1] =
             [@ EXCEPT !.filled = FALSE, !.filledAt = 0, !.txHash = 0]]
     ELSE grid

-----------------------------------------------------------------------------
(* risk: the guardian *)

\* a DailyTradeCounter: nil, or what CountToday returns
Counter(count, countErr) == [nil |-> FALSE, count |-> count, err |-> countErr]
NilCounter == [nil |-> TRUE, count |-> 0, err |-> FALSE]

\* count > limit
OverLimit(count, limit) == count > limit

\* count >= g.limits.MaxDailyTrades
ReachedLimit(count, limit) == count >= limit

\* Guardian.PreTradeCheck: the error ("none" for nil) and whether
\* CountToday was called
GuardianPreTradeCheck(limits, tradeUSDValue, counter) ==
  IF limits.MaxPositionSizeUSD > 0
       /\ tradeUSDValue > limits.MaxPositionSizeUSD
  THEN [err |-> "position", counted |-> FALSE]
  ELSE IF limits.MaxDailyTrades > 0 /\ ~counter.nil
  THEN IF counter.err THEN [err |-> "counter", counted |-> TRUE]
       ELSE IF ReachedLimit(counter.count, limits.MaxDailyTrades)
       THEN [err |-> "daily", counted |-> TRUE]
       ELSE [err |-> "none", counted |-> TRUE]
  ELSE [err |-> "none", counted |-> FALSE]

\* pnlPercent < -stopLoss
BelowStopLoss(pnlPercent, stopLoss) == pnlPercent < 0 - stopLoss

\* pnlPercent <= -g.limits.StopLossPercent
StopLossHit(pnlPercent, stopLoss) == pnlPercent <= 0 - stopLoss

\* Guardian.PortfolioCheck: the error, "none" for nil
GuardianPortfolioCheck(limits, pnlPercent) ==
  IF limits.StopLossPercent > 0
       /\ StopLossHit(pnlPercent, limits.StopLossPercent)
  THEN "stopLoss"
  ELSE IF limits.TakeProfitPercent > 0
            /\ pnlPercent >= limits.TakeProfitPercent
  THEN "takeProfit"
  ELSE "none"

\* the limits of the bot's guardian, in thousandths of a dollar and tenths
\* of a percent
BotLimits ==
  [MaxDailyTrades |-> MaxDailyTrades,
   MaxPositionSizeUSD |-> MaxPositionSizeUSD * 1000,
   StopLossPercent |-> StopLossPercent * 10,
   TakeProfitPercent |-> TakeProfitPercent * 10]

\* "ok", or the reason the trade is blocked.  countErr: CountToday failed.
PreTradeCheck(tradeUSD, count, countErr) ==
  LET e == GuardianPreTradeCheck(BotLimits, tradeUSD,
                                 Counter(count, countErr)).err
  IN IF e = "none" THEN "ok" ELSE e

\* TRUE when a circuit breaker trips.  pnl in tenths of a percent.
PortfolioCheck(pnlPermille) ==
  GuardianPortfolioCheck(BotLimits, pnlPermille) # "none"

\* the calendar of package time
IsLeap(year) == (year % 4 = 0 /\ year % 100 # 0) \/ year % 400 = 0

DaysIn(year, month) ==
  IF month = 2 THEN (IF IsLeap(year) THEN 29 ELSE 28)
  ELSE IF month \in {4, 6, 9, 11} THEN 30 ELSE 31

\* the date n days after the first of month/year
RECURSIVE CivilFrom(_, _, _)
CivilFrom(year, month, n) ==
  IF n < DaysIn(year, month)
  THEN [year |-> year, month |-> month, day |-> n + 1]
  ELSE IF month = 12 THEN CivilFrom(year + 1, 1, n - 31)
  ELSE CivilFrom(year, month + 1, n - DaysIn(year, month))

\* Time.Date() of an instant in UTC; instants are minutes since
\* 2022-01-01 00:00 UTC
UTCDate(ts) == CivilFrom(2022, 1, ts \div 1440)

\* utc.Hour()*60 + utc.Minute()
UTCMinutes(ts) == ((ts % 1440) \div 60) * 60 + (ts % 60)

\* Time.AddDate(0, 0, -1): Date(year, month, day-1, ...) normalised
AddDateMinusOneDay(d) ==
  IF d.day > 1 THEN [d EXCEPT !.day = @ - 1]
  ELSE IF d.month > 1
  THEN [d EXCEPT !.month = @ - 1, !.day = DaysIn(d.year, d.month - 1)]
  ELSE [year |-> d.year - 1, month |-> 12, day |-> 31]

\* Format("2006-01-02"), the digits YYYYMMDD read as a number
FormatDate(d) == d.year * 10000 + d.month * 100 + d.day

\* utcMinutes <= cutoff
NotAfterCutoff(utcMinutes) == utcMinutes <= 17 * 60

\* utcMinutes < cutoff
BeforeCutoff(utcMinutes) == utcMinutes < 17 * 60

TradingDay(ts) ==
  LET day == UTCDate(ts)
  IN FormatDate(IF BeforeCutoff(UTCMinutes(ts)) THEN AddDateMinusOneDay(day)
                ELSE day)

-----------------------------------------------------------------------------
(* bot: the paper wallet *)

NewPaperWallet(initialETH, initialUSDC) ==
  [eth |-> initialETH, usdc |-> initialUSDC, gas |-> 0, trades |-> 0,
   initialETH |-> initialETH, initialUSDC |-> initialUSDC]

ExecuteBuy(w, usdcAmount, ethAmount) ==
  IF w.usdc < usdcAmount THEN [ok |-> FALSE, w |-> w]
  ELSE [ok |-> TRUE,
        w |-> [w EXCEPT !.usdc = @ - usdcAmount, !.eth = @ + ethAmount]]

ExecuteSell(w, ethAmount, usdcAmount) ==
  IF w.eth < ethAmount THEN [ok |-> FALSE, w |-> w]
  ELSE [ok |-> TRUE,
        w |-> [w EXCEPT !.eth = @ - ethAmount, !.usdc = @ + usdcAmount]]

DeductGas(w, gasETH) == [w EXCEPT !.eth = @ - gasETH, !.gas = @ + gasETH]

RecordTrade(w) == [w EXCEPT !.trades = @ + 1]

\* amount * (1 - slip)
AfterSlip(amount, slip) == (amount * (1000 - slip)) \div 1000

\* [ok, w]: the wallet after executePaperSwap, ok = FALSE when it returns an
\* error (the wallet is then untouched).
executePaperSwap(w, side, ethAmount, usdcAmount, slip) ==
  LET gas == defaultPaperGasCost
      r == IF side = "buy"
           THEN ExecuteBuy(w, usdcAmount, AfterSlip(ethAmount, slip))
           ELSE IF w.eth < ethAmount + gas THEN [ok |-> FALSE, w |-> w]
           ELSE ExecuteSell(w, ethAmount, AfterSlip(usdcAmount, slip))
  IN IF ~r.ok THEN r
     ELSE [ok |-> TRUE, w |-> RecordTrade(DeductGas(r.w, gas))]

\* value in milli-USDC of eth micro-ETH at price
ValueOf(eth, price) == (eth * price) \div 1000

\* PaperWallet.Stats(price).UnrealizedPnLPct, in tenths of a percent
UnrealizedPnLPct(w, price) ==
  LET initialVal == ValueOf(w.initialETH, price) + w.initialUSDC
      currentVal == ValueOf(w.eth, price) + w.usdc
  IN IF initialVal > 0 THEN ((currentVal - initialVal) * 1000) \div initialVal
     ELSE 0

-----------------------------------------------------------------------------
(* bot: GridBot and Service, one bot, as cmd/server runs them *)

Actors == {"run", "sched"}

\* the variables of the other parts of the model
notBot == <<startVars, saveVars, paperVars, schedVars, fetchVars, snapVars,
            pureVars, clientVars, walletVars, engineVars>>

NoTrig == [idx |-> NoLevel, side |-> "none", price |-> 0, quantity |-> 0,
           stale |-> FALSE]

\* The process is up: main has not returned and nothing has panicked.
Alive == mainPc # "exited" /\ ~panicked

\* What an I/O call under the root context may do: fail, and only fail once
\* the context is cancelled.
IOResults == IF ctxDone THEN {FALSE} ELSE BOOLEAN

\* coingecko.GetETHPrice: an error (0 here) or a price, sane or not
FetchOutcomes == IF ctxDone THEN {0} ELSE {0} \cup Prices \cup {200000}

\* a fetchETHPrice without the sanity bounds
FetchedPriceUnchecked(o) == IF o <= 0 THEN LastETHPrice ELSE o

\* fetchETHPrice: the price priceRepo.Record has last been given
RecordedPrice(o) ==
  IF o <= 0 THEN priceRec
  ELSE IF o < MinSanePrice \/ o > MaxSanePrice THEN priceRec
  ELSE o

\* fetchETHPrice: the price the caller gets
FetchedPrice(o) ==
  IF o <= 0 THEN LastETHPrice
  ELSE IF o < MinSanePrice \/ o > MaxSanePrice THEN LastETHPrice
  ELSE o

\* saveState: the active row after gridRepo.Save, which may fail
SavedState(grid, trades, ok) ==
  IF ok
  THEN [rows |-> 1, trades |-> trades,
        filled |-> {grid[k].index : k \in {j \in 1..Len(grid) : grid[j].filled}}]
  ELSE dbState

\* A tick between FindTriggeredLevel's hit and the end of executeSwap.
ExecPcs == {"pretrade", "swap", "save", "record", "resetSave"}
\* The ticker exists.
TickerPcs == {"tick", "select", "cooldown"} \cup ExecPcs

\* Before any rebuild asked by the scheduler.
NoBefore == [BasePrice |-> 0, quiet |-> FALSE]

\* Run is past its own InitializeGrid (it calls it once, before its first
\* tick): from here on only Service.InitializeGrid writes BasePrice.
RunPastInit ==
  igPc["run"] = "idle" /\ runPc \notin {"none", "spawned", "initGrid"}

BotInit ==
  /\ mainPc = "boot"
  /\ ctxDone = FALSE
  /\ panicked = FALSE
  /\ paper \in BOOLEAN
  /\ svcBot = FALSE
  /\ Grid = <<>>
  /\ BasePrice = 0
  /\ LastETHPrice = 0
  /\ priceRec = 0
  /\ TradesExecuted = 0
  /\ running = FALSE
  /\ stopCloses = 0
  /\ rpcCloses = 0
  /\ wallet = NewPaperWallet(PaperInitialETH, PaperInitialUSDC)
  /\ runPc = "none"
  /\ curPrice = 0
  /\ trig = NoTrig
  /\ tickErr = "none"
  /\ tickerPending = FALSE
  /\ igPc = [a \in Actors |-> "idle"]
  /\ igCenter = [a \in Actors |-> 0]
  /\ igMid = [a \in Actors |-> 0]
  /\ dbState = [rows |-> 0, trades |-> 0, filled |-> {}]
  /\ dbTrades = 0
  /\ swaps = 0
  /\ tripped = FALSE
  /\ rebuilds = 0
  /\ igBefore = NoBefore

\* Service.Start: NewGridBot, Init (nothing persisted yet), go b.Run(ctx)
ServiceStart ==
  /\ mainPc = "boot"
  /\ mainPc' = "serving"
  /\ svcBot' = TRUE
  /\ runPc' = "spawned"
  /\ UNCHANGED <<ctxDone, panicked, paper, Grid, BasePrice, LastETHPrice,
                 priceRec,
                 TradesExecuted, running, stopCloses, rpcCloses, wallet,
                 curPrice, trig, tickErr, tickerPending, igPc, igCenter, igMid,
                 dbState, dbTrades, swaps, tripped, rebuilds,
                 igBefore>>
  /\ UNCHANGED notBot

\* GridBot.Run up to InitializeGrid or the ticker and the immediate tick
RunBegin ==
  /\ Alive
  /\ runPc = "spawned"
  /\ running' = TRUE
  /\ IF Len(Grid) = 0
     THEN /\ runPc' = "initGrid"
          /\ igPc' = [igPc EXCEPT !["run"] = "sr"]
     ELSE /\ runPc' = "tick"
          /\ igPc' = igPc
  /\ UNCHANGED <<mainPc, ctxDone, panicked, paper, svcBot, Grid, BasePrice,
                 LastETHPrice, priceRec, TradesExecuted, stopCloses,
                 rpcCloses, wallet,
                 curPrice, trig, tickErr, tickerPending, igCenter, igMid,
                 dbState,
                 dbTrades, swaps, tripped, rebuilds,
                 igBefore>>
  /\ UNCHANGED notBot

\* Service.InitializeGrid, the scheduler's OnGridRecalculate callback: it
\* takes Service.mu only to read s.bot, then works on the bot unlocked.
SchedRebuild ==
  /\ Alive
  /\ mainPc \in {"serving", "shutdown", "stopped"}
  /\ igPc["sched"] = "idle"
  /\ rebuilds < MaxRebuilds
  /\ rebuilds' = rebuilds + 1
  /\ IF svcBot
     THEN /\ igBefore' = [BasePrice |-> BasePrice, quiet |-> RunPastInit]
          /\ BasePrice' = 0
          /\ igPc' = [igPc EXCEPT !["sched"] = "sr"]
     ELSE UNCHANGED <<BasePrice, igPc, igBefore>>
  /\ UNCHANGED <<mainPc, ctxDone, panicked, paper, svcBot, Grid,
                 LastETHPrice, priceRec, TradesExecuted, running, stopCloses,
                 rpcCloses, wallet, runPc, curPrice, trig, tickErr,
                 tickerPending, igCenter, igMid, dbState, dbTrades, swaps,
                 tripped>>
  /\ UNCHANGED notBot

\* InitializeGrid returns to its caller: Run goes on to its first tick, or
\* returns when the initialization failed; the scheduler's callback ends.
IGReturn(a, ok) ==
  /\ igPc' = [igPc EXCEPT ![a] = "idle"]
  /\ igCenter' = [igCenter EXCEPT ![a] = 0]
  /\ igMid' = [igMid EXCEPT ![a] = 0]
  /\ runPc' = IF a = "run" THEN (IF ok THEN "tick" ELSE "done") ELSE runPc

\* InitializeGrid: sr := b.fetchSR(ctx) (the S/R provider answers, or the
\* fallback around the current price when it fails, 0 here), then the choice
\* of the center.
IGFetchSR(a) ==
  /\ Alive
  /\ igPc[a] = "sr"
  /\ \E o \in Midpoints \cup {0}, f \in FetchOutcomes :
       LET fallback == (o = 0)
           mid == IF fallback THEN FetchedPrice(f) ELSE o
           center == IF BasePrice = 0 THEN mid ELSE BasePrice
       IN /\ LastETHPrice' = IF fallback THEN FetchedPrice(f)
                             ELSE LastETHPrice
          /\ priceRec' = IF fallback THEN RecordedPrice(f) ELSE priceRec
          /\ BasePrice' = center
          /\ igCenter' = [igCenter EXCEPT ![a] = center]
          /\ igMid' = [igMid EXCEPT ![a] = mid]
  /\ igPc' = [igPc EXCEPT ![a] = "price"]
  /\ UNCHANGED <<mainPc, ctxDone, panicked, paper, svcBot, Grid,
                 TradesExecuted, running, stopCloses, rpcCloses, wallet,
                 runPc, curPrice, trig, tickErr, tickerPending, dbState,
                 dbTrades, swaps, tripped, rebuilds,
                 igBefore>>
  /\ UNCHANGED notBot

\* InitializeGrid: price := b.fetchETHPrice(ctx); an invalid price is an error
IGPrice(a) ==
  /\ Alive
  /\ igPc[a] = "price"
  /\ \E f \in FetchOutcomes :
       /\ LastETHPrice' = FetchedPrice(f)
       /\ priceRec' = RecordedPrice(f)
       /\ IF FetchedPrice(f) <= 0
          THEN IGReturn(a, FALSE)
          ELSE /\ igPc' = [igPc EXCEPT ![a] = "install"]
               /\ UNCHANGED <<runPc, igCenter, igMid>>
  /\ UNCHANGED <<mainPc, ctxDone, panicked, paper, svcBot, Grid, BasePrice,
                 TradesExecuted, running, stopCloses, rpcCloses, wallet,
                 curPrice, trig, tickErr, tickerPending, dbState,
                 dbTrades, swaps, tripped, rebuilds,
                 igBefore>>
  /\ UNCHANGED notBot

\* InitializeGrid: CalculateGridLevels, b.Grid = grid, saveState.  A level
\* pointer a tick holds keeps pointing into the replaced slice.
IGInstall(a) ==
  /\ Alive
  /\ igPc[a] = "install"
  /\ LET grid == CalculateGridLevels(igCenter[a], GridLevels,
                                     GridSpacingPercent, AmountPerGrid)
     IN IF grid = <<>>
        THEN /\ IGReturn(a, FALSE)
             /\ UNCHANGED <<Grid, trig, dbState>>
        ELSE /\ Grid' = grid
             /\ trig' = IF trig.idx # NoLevel
                        THEN [trig EXCEPT !.stale = TRUE] ELSE trig
             /\ \E ok \in IOResults :
                  dbState' = SavedState(grid, TradesExecuted, ok)
             /\ IGReturn(a, TRUE)
  /\ UNCHANGED <<mainPc, ctxDone, panicked, paper, svcBot, BasePrice,
                 LastETHPrice, priceRec, TradesExecuted, running, stopCloses,
                 rpcCloses, wallet, curPrice, tickErr, tickerPending,
                 dbTrades, swaps, tripped, rebuilds,
                 igBefore>>
  /\ UNCHANGED notBot

\* tick: fetchETHPrice, the portfolio circuit breaker, FindTriggeredLevel.
\* A tick that finds nothing to do returns (after maybeReportStatus).
TickPrice ==
  /\ Alive
  /\ runPc = "tick"
  /\ swaps < MaxTrades
  /\ tickErr' = "none"
  /\ \E f \in FetchOutcomes :
       LET price == FetchedPrice(f)
           k == FindTriggeredLevel(price, Grid)
       IN /\ LastETHPrice' = price
          /\ priceRec' = RecordedPrice(f)
          /\ IF price <= 0
             THEN /\ runPc' = "select"
                  /\ UNCHANGED <<curPrice, trig, stopCloses, running,
                                 panicked, tripped>>
             ELSE IF paper /\ PortfolioCheck(UnrealizedPnLPct(wallet, price))
             THEN /\ stopCloses' = stopCloses + 1
                  /\ panicked' = (stopCloses >= 1)
                  /\ running' = FALSE
                  /\ tripped' = TRUE
                  /\ runPc' = "select"
                  /\ UNCHANGED <<curPrice, trig>>
             ELSE IF k = NoLevel
             THEN /\ runPc' = "select"
                  /\ UNCHANGED <<curPrice, trig, stopCloses, running,
                                 panicked, tripped>>
             ELSE /\ curPrice' = price
                  /\ trig' = [idx |-> k, side |-> Grid[k + 1].side,
                              price |-> Grid[k + 1].price,
                              quantity |-> Grid[k + 1].quantity,
                              stale |-> FALSE]
                  /\ runPc' = "pretrade"
                  /\ UNCHANGED <<stopCloses, running, panicked, tripped>>
  /\ UNCHANGED <<mainPc, ctxDone, paper, svcBot, Grid, BasePrice,
                 TradesExecuted, rpcCloses, wallet, tickerPending, igPc,
                 igCenter, igMid, dbState, dbTrades, swaps, rebuilds,
                 igBefore>>
  /\ UNCHANGED notBot

\* tick returns to Run's loop; its locals are gone.
TickReturn ==
  /\ runPc' = "select"
  /\ curPrice' = 0
  /\ trig' = NoTrig

\* An executeTrade that does not consult the guardian.
TickPreTradeUnchecked ==
  /\ Alive
  /\ runPc = "pretrade"
  /\ runPc' = "swap"
  /\ UNCHANGED <<tickErr, curPrice, trig>>
  /\ UNCHANGED <<mainPc, ctxDone, panicked, paper, svcBot, Grid, BasePrice,
                 LastETHPrice, priceRec, TradesExecuted, running, stopCloses,
                 rpcCloses, wallet, tickerPending, igPc,
                 igCenter, igMid, dbState, dbTrades, swaps, tripped, rebuilds,
                 igBefore>>
  /\ UNCHANGED notBot

\* executeTrade: the guardian's PreTradeCheck; a blocked trade is notified
\* and the tick goes on without it (no cooldown).
TickPreTrade ==
  /\ Alive
  /\ runPc = "pretrade"
  /\ \E countErr \in {~ok : ok \in IOResults} :
       IF PreTradeCheck(ValueOf(trig.quantity, curPrice), dbTrades,
                        countErr) = "ok"
       THEN /\ runPc' = "swap"
            /\ UNCHANGED <<tickErr, curPrice, trig>>
       ELSE /\ tickErr' = "rejected"
            /\ TickReturn
  /\ UNCHANGED <<mainPc, ctxDone, panicked, paper, svcBot, Grid, BasePrice,
                 LastETHPrice, priceRec, TradesExecuted, running, stopCloses,
                 rpcCloses, wallet, tickerPending, igPc,
                 igCenter, igMid, dbState, dbTrades, swaps, tripped, rebuilds,
                 igBefore>>
  /\ UNCHANGED notBot

\* executeSwap after a swap that succeeded: level.Filled, FilledAt, TxHash
\* through the level pointer, TradesExecuted++.
MarkFilled ==
  /\ Grid' = IF trig.stale THEN Grid
             ELSE [Grid EXCEPT ![trig.idx + 1] =
                     [@ EXCEPT !.filled = TRUE, !.filledAt = 1,
                               !.txHash = 1]]
  /\ TradesExecuted' = TradesExecuted + 1
  /\ swaps' = swaps + 1
  /\ runPc' = "save"
  /\ UNCHANGED <<tickErr, curPrice, trig>>

\* executeSwap: the paper or the live swap; an error ends the tick
TickSwap ==
  /\ Alive
  /\ runPc = "swap"
  /\ LET ethAmount == trig.quantity
         usdcAmount == ValueOf(trig.quantity, curPrice)
     IN IF paper
        THEN \E slip \in {MaxSlip} :
               LET r == executePaperSwap(wallet, trig.side, ethAmount,
                                         usdcAmount, slip)
               IN IF r.ok
                  THEN wallet' = r.w /\ MarkFilled
                  ELSE /\ TickReturn
                       /\ tickErr' = "swapfail"
                       /\ UNCHANGED <<wallet, Grid, TradesExecuted, swaps>>
        ELSE \E ok \in IOResults :
               IF ok
               THEN wallet' = wallet /\ MarkFilled
               ELSE /\ TickReturn
                    /\ tickErr' = "swapfail"
                    /\ UNCHANGED <<wallet, Grid, TradesExecuted, swaps>>
  /\ UNCHANGED <<mainPc, ctxDone, panicked, paper, svcBot, BasePrice,
                 LastETHPrice, priceRec, running, stopCloses, rpcCloses,
                 tickerPending, igPc, igCenter, igMid, dbState, dbTrades,
                 tripped, rebuilds,
                 igBefore>>
  /\ UNCHANGED notBot

\* executeSwap: b.saveState(ctx), whose error is only logged
TickSave ==
  /\ Alive
  /\ runPc = "save"
  /\ \E ok \in IOResults :
       dbState' = SavedState(Grid, TradesExecuted, ok)
  /\ runPc' = "record"
  /\ UNCHANGED <<mainPc, ctxDone, panicked, paper, svcBot, Grid, BasePrice,
                 LastETHPrice, priceRec, TradesExecuted, running, stopCloses,
                 rpcCloses, wallet, curPrice, trig, tickErr, tickerPending,
                 igPc, igCenter, igMid, dbTrades, swaps, tripped, rebuilds,
                 igBefore>>
  /\ UNCHANGED notBot

\* executeSwap: tradeRepo.Record (its error is dropped), then
\* resetOppositeLevel on the bot's grid as it is now
TickRecord ==
  /\ Alive
  /\ runPc = "record"
  /\ \E ok \in IOResults : dbTrades' = IF ok THEN dbTrades + 1 ELSE dbTrades
  /\ Grid' = resetOppositeLevel(Grid, trig.side, trig.idx)
  /\ runPc' = IF Grid' # Grid THEN "resetSave" ELSE "cooldown"
  /\ UNCHANGED <<mainPc, ctxDone, panicked, paper, svcBot, BasePrice,
                 LastETHPrice, priceRec, TradesExecuted, running, stopCloses,
                 rpcCloses, wallet, curPrice, trig, tickErr, tickerPending,
                 igPc, igCenter, igMid, dbState, swaps, tripped, rebuilds,
                 igBefore>>
  /\ UNCHANGED notBot

\* resetOppositeLevel: b.saveState(ctx) after a reset
TickResetSave ==
  /\ Alive
  /\ runPc = "resetSave"
  /\ \E ok \in IOResults :
       dbState' = SavedState(Grid, TradesExecuted, ok)
  /\ runPc' = "cooldown"
  /\ UNCHANGED <<mainPc, ctxDone, panicked, paper, svcBot, Grid, BasePrice,
                 LastETHPrice, priceRec, TradesExecuted, running, stopCloses,
                 rpcCloses, wallet, curPrice, trig, tickErr, tickerPending,
                 igPc, igCenter, igMid, dbTrades, swaps, tripped, rebuilds,
                 igBefore>>
  /\ UNCHANGED notBot

\* tick: the post-trade cooldown elapses (then maybeReportStatus)
TickCooldownElapsed ==
  /\ Alive
  /\ runPc = "cooldown"
  /\ TickReturn
  /\ UNCHANGED <<mainPc, ctxDone, panicked, paper, svcBot, Grid, BasePrice,
                 LastETHPrice, priceRec, TradesExecuted, running, stopCloses,
                 rpcCloses, wallet, tickErr, tickerPending,
                 igPc, igCenter, igMid, dbState, dbTrades, swaps, tripped,
                 rebuilds,
                 igBefore>>
  /\ UNCHANGED notBot

\* tick: the stop channel is closed during the cooldown, the tick returns
TickCooldownStopped ==
  /\ Alive
  /\ runPc = "cooldown"
  /\ stopCloses > 0
  /\ TickReturn
  /\ UNCHANGED <<mainPc, ctxDone, panicked, paper, svcBot, Grid, BasePrice,
                 LastETHPrice, priceRec, TradesExecuted, running, stopCloses,
                 rpcCloses, wallet, tickErr, tickerPending,
                 igPc, igCenter, igMid, dbState, dbTrades, swaps, tripped,
                 rebuilds,
                 igBefore>>
  /\ UNCHANGED notBot

\* The ticker fires; its channel holds one event.
TickerFire ==
  /\ Alive
  /\ runPc \in TickerPcs
  /\ ~tickerPending
  /\ tickerPending' = TRUE
  /\ UNCHANGED <<mainPc, ctxDone, panicked, paper, svcBot, Grid, BasePrice,
                 LastETHPrice, priceRec, TradesExecuted, running, stopCloses,
                 rpcCloses, wallet, runPc, curPrice, trig, tickErr, igPc,
                 igCenter, igMid, dbState, dbTrades, swaps, tripped, rebuilds,
                 igBefore>>
  /\ UNCHANGED notBot

\* Run's select takes one of its ready cases: the closed stop channel,
RunSelectStop ==
  /\ Alive
  /\ runPc = "select"
  /\ stopCloses > 0
  /\ running' = FALSE
  /\ runPc' = "done"
  /\ UNCHANGED <<mainPc, ctxDone, panicked, paper, svcBot, Grid, BasePrice,
                 LastETHPrice, priceRec, TradesExecuted, stopCloses,
                 rpcCloses, wallet,
                 curPrice, trig, tickErr, tickerPending, igPc, igCenter, igMid,
                 dbState, dbTrades, swaps, tripped, rebuilds,
                 igBefore>>
  /\ UNCHANGED notBot

\* the cancelled context,
RunSelectCtx ==
  /\ Alive
  /\ runPc = "select"
  /\ ctxDone
  /\ running' = FALSE
  /\ runPc' = "done"
  /\ UNCHANGED <<mainPc, ctxDone, panicked, paper, svcBot, Grid, BasePrice,
                 LastETHPrice, priceRec, TradesExecuted, stopCloses,
                 rpcCloses, wallet,
                 curPrice, trig, tickErr, tickerPending, igPc, igCenter, igMid,
                 dbState, dbTrades, swaps, tripped, rebuilds,
                 igBefore>>
  /\ UNCHANGED notBot

\* or the ticker's event: the next tick.
RunSelectTick ==
  /\ Alive
  /\ runPc = "select"
  /\ tickerPending
  /\ tickerPending' = FALSE
  /\ runPc' = "tick"
  /\ UNCHANGED <<mainPc, ctxDone, panicked, paper, svcBot, Grid, BasePrice,
                 LastETHPrice, priceRec, TradesExecuted, running, stopCloses,
                 rpcCloses, wallet, curPrice, trig, tickErr, igPc, igCenter,
                 igMid,
                 dbState, dbTrades, swaps, tripped, rebuilds,
                 igBefore>>
  /\ UNCHANGED notBot

\* main: SIGINT or SIGTERM cancels the root context
MainSignal ==
  /\ Alive
  /\ mainPc = "serving"
  /\ ctxDone' = TRUE
  /\ mainPc' = "shutdown"
  /\ UNCHANGED <<panicked, paper, svcBot, Grid, BasePrice, LastETHPrice,
                 priceRec,
                 TradesExecuted, running, stopCloses, rpcCloses, wallet,
                 runPc, curPrice, trig, tickErr, tickerPending, igPc,
                 igCenter, igMid, dbState, dbTrades, swaps, tripped, rebuilds,
                 igBefore>>
  /\ UNCHANGED notBot

\* Service.Stop: GridBot.Shutdown of the bot it holds, then s.bot = nil.
\* A Stop that finds no bot does nothing.
ServiceStop ==
  /\ Alive
  /\ mainPc \in {"shutdown", "stopped"}
  /\ mainPc' = "stopped"
  /\ svcBot' = FALSE
  /\ IF svcBot
     THEN /\ stopCloses' = IF running THEN stopCloses + 1 ELSE stopCloses
          /\ panicked' = (running /\ stopCloses >= 1)
          /\ rpcCloses' = IF paper THEN rpcCloses ELSE rpcCloses + 1
     ELSE UNCHANGED <<stopCloses, panicked, rpcCloses>>
  /\ UNCHANGED <<ctxDone, paper, Grid, BasePrice, LastETHPrice, priceRec,
                 TradesExecuted, running, wallet, runPc, curPrice, trig,
                 tickErr, tickerPending, igPc, igCenter, igMid, dbState,
                 dbTrades,
                 swaps, tripped, rebuilds,
                 igBefore>>
  /\ UNCHANGED notBot

\* main returns after the API server's shutdown: the process is gone, with
\* every goroutine wherever it stands.
MainExit ==
  /\ Alive
  /\ mainPc = "stopped"
  /\ mainPc' = "exited"
  /\ UNCHANGED <<ctxDone, panicked, paper, svcBot, Grid, BasePrice,
                 LastETHPrice, priceRec, TradesExecuted, running, stopCloses,
                 rpcCloses, wallet, runPc, curPrice, trig, tickErr,
                 tickerPending, igPc, igCenter, igMid, dbState, dbTrades,
                 swaps,
                 tripped, rebuilds,
                 igBefore>>
  /\ UNCHANGED notBot

BotNext ==
  \/ ServiceStart
  \/ RunBegin
  \/ SchedRebuild
  \/ \E a \in Actors : IGFetchSR(a)
  \/ \E a \in Actors : IGPrice(a)
  \/ \E a \in Actors : IGInstall(a)
  \/ TickPrice
  \/ TickPreTrade
  \/ TickSwap
  \/ TickSave
  \/ TickRecord
  \/ TickResetSave
  \/ TickCooldownElapsed
  \/ TickCooldownStopped
  \/ TickerFire
  \/ RunSelectStop
  \/ RunSelectCtx
  \/ RunSelectTick
  \/ MainSignal
  \/ ServiceStop
  \/ MainExit


-----------------------------------------------------------------------------
(* bot: Service.Start and Service.Stop called at will, several bots        *)
(* The tick's body is the one of the part above; here a tick is in flight  *)
(* or not.                                                                 *)

Bots == 1..MaxBots

notStart == <<botVars, saveVars, paperVars, schedVars, fetchVars, snapVars,
              pureVars, clientVars, walletVars, engineVars>>

StartInit ==
  /\ sBot = 0
  /\ sNext = 0
  /\ bPc = [b \in Bots |-> "none"]
  /\ bRunning = [b \in Bots |-> FALSE]
  /\ bStopCloses = [b \in Bots |-> 0]

\* Service.Start under Service.mu: "Already running" when the bot it holds
\* says IsRunning; otherwise NewGridBot, Init (which may fail), s.bot = b,
\* go b.Run(ctx).
SvcStart ==
  /\ \/ /\ sBot # 0 /\ bRunning[sBot]
        /\ UNCHANGED startVars
     \/ /\ ~(sBot # 0 /\ bRunning[sBot])
        /\ sNext < MaxBots
        /\ sNext' = sNext + 1
        /\ \E ok \in BOOLEAN :
             IF ok
             THEN /\ sBot' = sNext + 1
                  /\ bPc' = [bPc EXCEPT ![sNext + 1] = "spawned"]
             ELSE UNCHANGED <<sBot, bPc>>
        /\ UNCHANGED <<bRunning, bStopCloses>>
  /\ UNCHANGED notStart

\* GridBot.Run of bot b: running = true, the grid when there is none (a
\* failure returns, running stays set), the ticker, the immediate tick
BotRun(b) ==
  /\ bPc[b] = "spawned"
  /\ bRunning' = [bRunning EXCEPT ![b] = TRUE]
  /\ \E ok \in BOOLEAN :
       bPc' = [bPc EXCEPT ![b] = IF ok THEN "tick" ELSE "done"]
  /\ UNCHANGED <<sBot, sNext, bStopCloses>>
  /\ UNCHANGED notStart

\* b.tick returns
BotTickReturn(b) ==
  /\ bPc[b] = "tick"
  /\ bPc' = [bPc EXCEPT ![b] = "select"]
  /\ UNCHANGED <<sBot, sNext, bRunning, bStopCloses>>
  /\ UNCHANGED notStart

\* Run's select: case <-ticker.C
BotSelectTick(b) ==
  /\ bPc[b] = "select"
  /\ bPc' = [bPc EXCEPT ![b] = "tick"]
  /\ UNCHANGED <<sBot, sNext, bRunning, bStopCloses>>
  /\ UNCHANGED notStart

\* Run's select: case <-b.stopCh
BotSelectStop(b) ==
  /\ bPc[b] = "select"
  /\ bStopCloses[b] > 0
  /\ bRunning' = [bRunning EXCEPT ![b] = FALSE]
  /\ bPc' = [bPc EXCEPT ![b] = "done"]
  /\ UNCHANGED <<sBot, sNext, bStopCloses>>
  /\ UNCHANGED notStart

\* Service.Stop under Service.mu: Shutdown of the bot it holds, s.bot = nil
SvcStop ==
  /\ IF sBot # 0
     THEN /\ bStopCloses' = [bStopCloses EXCEPT ![sBot] =
                               IF bRunning[sBot] THEN @ + 1 ELSE @]
          /\ sBot' = 0
     ELSE UNCHANGED <<sBot, bStopCloses>>
  /\ UNCHANGED <<sNext, bPc, bRunning>>
  /\ UNCHANGED notStart

StartNext ==
  \/ SvcStart
  \/ \E b \in Bots : BotRun(b)
  \/ \E b \in Bots : BotTickReturn(b)
  \/ \E b \in Bots : BotSelectTick(b)
  \/ \E b \in Bots : BotSelectStop(b)
  \/ SvcStop

-----------------------------------------------------------------------------
(* repository: GridStateRepo.Save from two goroutines, on a PostgreSQL     *)
(* table at READ COMMITTED (pgx's default), no unique index on is_active   *)

Clients == {"tick", "rebuild"}

notSave == <<botVars, startVars, paperVars, schedVars, fetchVars, snapVars,
             pureVars, clientVars, walletVars, engineVars>>

SaveInit ==
  /\ rows \in {<<>>, <<TRUE>>}
  /\ txPc = [c \in Clients |-> "idle"]
  /\ txSnap = [c \in Clients |-> {}]
  /\ txOff = [c \in Clients |-> {}]
  /\ saved = 0

ActiveRows == {r \in 1..Len(rows) : rows[r]}

\* rows that another transaction has updated and not yet committed
Locked(c) == UNION {txOff[d] : d \in Clients \ {c}}

\* r.pool.Begin
SaveBegin(c) ==
  /\ txPc[c] = "idle"
  /\ Len(rows) + Cardinality({d \in Clients : txPc[d] # "idle"}) < MaxRows
  /\ txPc' = [txPc EXCEPT ![c] = "begun"]
  /\ UNCHANGED <<rows, txSnap, txOff, saved>>
  /\ UNCHANGED notSave

\* UPDATE grid_state SET is_active = false WHERE is_active = true: the
\* statement sees the rows committed when it starts; it updates those it can
\* lock and waits for the others.
SaveUpdate(c) ==
  /\ txPc[c] = "begun"
  /\ LET seen == ActiveRows
         busy == seen \cap Locked(c)
     IN /\ txOff' = [txOff EXCEPT ![c] = seen \ busy]
        /\ txSnap' = [txSnap EXCEPT ![c] = busy]
        /\ txPc' = [txPc EXCEPT ![c] = IF busy = {} THEN "updated"
                                        ELSE "waiting"]
  /\ UNCHANGED <<rows, saved>>
  /\ UNCHANGED notSave

\* The lock holders are gone: the statement checks its WHERE again on the
\* latest version of each row it waited for, and sees no row inserted since
\* it started.
SaveUpdateResume(c) ==
  /\ txPc[c] = "waiting"
  /\ txSnap[c] \cap Locked(c) = {}
  /\ txOff' = [txOff EXCEPT ![c] = @ \cup (txSnap[c] \cap ActiveRows)]
  /\ txSnap' = [txSnap EXCEPT ![c] = {}]
  /\ txPc' = [txPc EXCEPT ![c] = "updated"]
  /\ UNCHANGED <<rows, saved>>
  /\ UNCHANGED notSave

\* INSERT ... is_active = true
SaveInsert(c) ==
  /\ txPc[c] = "updated"
  /\ txPc' = [txPc EXCEPT ![c] = "inserted"]
  /\ UNCHANGED <<rows, txSnap, txOff, saved>>
  /\ UNCHANGED notSave

\* tx.Commit: the updates and the new row become visible
SaveCommit(c) ==
  /\ txPc[c] = "inserted"
  /\ rows' = [r \in 1..(Len(rows) + 1) |->
                IF r = Len(rows) + 1 THEN TRUE
                ELSE rows[r] /\ r \notin txOff[c]]
  /\ saved' = saved + 1
  /\ txPc' = [txPc EXCEPT ![c] = "idle"]
  /\ txSnap' = [txSnap EXCEPT ![c] = {}]
  /\ txOff' = [txOff EXCEPT ![c] = {}]
  /\ UNCHANGED notSave

\* a statement or the commit fails: the deferred tx.Rollback undoes it all
SaveFail(c) ==
  /\ txPc[c] # "idle"
  /\ txPc' = [txPc EXCEPT ![c] = "idle"]
  /\ txSnap' = [txSnap EXCEPT ![c] = {}]
  /\ txOff' = [txOff EXCEPT ![c] = {}]
  /\ UNCHANGED <<rows, saved>>
  /\ UNCHANGED notSave

SaveNext ==
  \/ \E c \in Clients : SaveBegin(c)
  \/ \E c \in Clients : SaveUpdate(c)
  \/ \E c \in Clients : SaveUpdateResume(c)
  \/ \E c \in Clients : SaveInsert(c)
  \/ \E c \in Clients : SaveCommit(c)
  \/ \E c \in Clients : SaveFail(c)

-----------------------------------------------------------------------------
(* bot: the paper wallet alone, under any sequence of paper swaps *)

notPaper == <<botVars, startVars, saveVars, schedVars, fetchVars, snapVars,
              pureVars, clientVars, walletVars, engineVars>>

\* The level prices and the market prices of the swaps.
PaperLevelPrices == {1500, 25000}

\* PaperWallet.Init: the configured balances, or balances persisted by an
\* earlier run.
PaperInit ==
  /\ pw \in {NewPaperWallet(e, u) : e \in {0, PaperInitialETH},
                                    u \in {0, PaperInitialUSDC}}
  /\ pwPrev = 0

\* executeSwap of a level of the given side in paper mode
PaperSwap(side) ==
  /\ pw.trades < MaxPaperTrades
  /\ \E lp \in PaperLevelPrices, price \in PaperLevelPrices,
        slip \in SlipPermille :
       LET ethAmount == (AmountPerGrid * 1000000) \div lp
           usdcAmount == ValueOf(ethAmount, price)
       IN pw' = executePaperSwap(pw, side, ethAmount, usdcAmount, slip).w
  /\ pwPrev' = pw.trades
  /\ UNCHANGED notPaper

PaperNext == \E side \in {"buy", "sell"} : PaperSwap(side)

-----------------------------------------------------------------------------
(* scheduler: SRScheduler *)
(* A select whose cases are all blocked parks the goroutine; the first     *)
(* channel operation that can serve it decides the case it takes.  A       *)
(* select that finds several cases ready takes any of them.                *)

notSched == <<botVars, startVars, saveVars, paperVars, fetchVars, snapVars,
              pureVars, clientVars, walletVars, engineVars>>

SchedInit ==
  /\ schRunning = FALSE
  /\ schChans = <<>>
  /\ schInit = <<>>
  /\ schTick = <<>>
  /\ schManual = 0
  /\ schEvent = <<>>
  /\ schWait = <<>>
  /\ schLast = "none"

Gens == 1..Len(schChans)

\* SRScheduler.Running
Running == schRunning

\* SRScheduler.Start when it finds the scheduler running
SchedStartNoop ==
  /\ schLast' = "startNoop"
  /\ UNCHANGED <<schRunning, schChans, schInit, schTick, schManual, schEvent,
                 schWait>>

\* SRScheduler.Start when it finds it stopped: a new stop channel, the
\* one-shot fetch goroutine and the ticker goroutine
SchedStartSpawn ==
  /\ Len(schChans) < MaxStarts
  /\ schRunning' = TRUE
  /\ schChans' = Append(schChans, FALSE)
  /\ schInit' = Append(schInit, "spawned")
  /\ schTick' = Append(schTick, "select")
  /\ schEvent' = Append(schEvent, FALSE)
  /\ schWait' = Append(schWait, 0)
  /\ schLast' = "start"
  /\ UNCHANGED schManual

\* a Start that spawns whatever the running flag says
SchedStartUnguarded ==
  /\ SchedStartSpawn
  /\ UNCHANGED notSched

\* SRScheduler.Start
SchedStart ==
  /\ IF schRunning THEN SchedStartNoop ELSE SchedStartSpawn
  /\ UNCHANGED notSched

\* SRScheduler.Stop: close(s.stopCh) wakes the selects parked on it
SchedStop ==
  /\ IF schRunning
     THEN /\ schChans' = [schChans EXCEPT ![Len(schChans)] = TRUE]
          /\ schRunning' = FALSE
          /\ schTick' = [g \in Gens |->
                           IF schTick[g] = "blocked"
                                /\ schWait[g] = Len(schChans)
                           THEN "done" ELSE schTick[g]]
          /\ schWait' = [g \in Gens |->
                           IF schWait[g] = Len(schChans) THEN 0
                           ELSE schWait[g]]
          /\ schLast' = "stop"
     ELSE /\ schLast' = "stopNoop"
          /\ UNCHANGED <<schChans, schRunning, schTick, schWait>>
  /\ UNCHANGED <<schInit, schManual, schEvent>>
  /\ UNCHANGED notSched

\* the one-shot goroutine calls fetchAndProcess
InitFetchBegin(g) ==
  /\ schInit[g] = "spawned"
  /\ schInit' = [schInit EXCEPT ![g] = "fetch"]
  /\ UNCHANGED <<schRunning, schChans, schTick, schManual, schEvent, schWait,
                 schLast>>
  /\ UNCHANGED notSched

InitFetchEnd(g) ==
  /\ schInit[g] = "fetch"
  /\ schInit' = [schInit EXCEPT ![g] = "done"]
  /\ UNCHANGED <<schRunning, schChans, schTick, schManual, schEvent, schWait,
                 schLast>>
  /\ UNCHANGED notSched

\* the ticker of goroutine g fires: it wakes the parked select, or leaves
\* one event in ticker.C
TickerEvent(g) ==
  /\ schTick[g] # "done"
  /\ IF schTick[g] = "blocked"
     THEN /\ schTick' = [schTick EXCEPT ![g] = "fetch"]
          /\ schWait' = [schWait EXCEPT ![g] = 0]
          /\ UNCHANGED schEvent
     ELSE /\ ~schEvent[g]
          /\ schEvent' = [schEvent EXCEPT ![g] = TRUE]
          /\ UNCHANGED <<schTick, schWait>>
  /\ UNCHANGED <<schRunning, schChans, schInit, schManual, schLast>>
  /\ UNCHANGED notSched

\* the ticker goroutine's select finds case <-ticker.C ready: fetchAndProcess
TickerFetchBegin(g) ==
  /\ schTick[g] = "select"
  /\ schEvent[g]
  /\ schEvent' = [schEvent EXCEPT ![g] = FALSE]
  /\ schTick' = [schTick EXCEPT ![g] = "fetch"]
  /\ UNCHANGED <<schRunning, schChans, schInit, schManual, schWait, schLast>>
  /\ UNCHANGED notSched

TickerFetchEnd(g) ==
  /\ schTick[g] = "fetch"
  /\ schTick' = [schTick EXCEPT ![g] = "select"]
  /\ UNCHANGED <<schRunning, schChans, schInit, schManual, schEvent, schWait,
                 schLast>>
  /\ UNCHANGED notSched

\* the ticker goroutine's select finds case <-s.stopCh ready: the channel
\* the field holds when the select is evaluated is closed
TickerStop(g) ==
  /\ schTick[g] = "select"
  /\ schChans[Len(schChans)]
  /\ schTick' = [schTick EXCEPT ![g] = "done"]
  /\ UNCHANGED <<schRunning, schChans, schInit, schManual, schEvent, schWait,
                 schLast>>
  /\ UNCHANGED notSched

\* the ticker goroutine's select finds no case ready and parks on the
\* channel the field holds now
TickerBlock(g) ==
  /\ schTick[g] = "select"
  /\ ~schChans[Len(schChans)]
  /\ ~schEvent[g]
  /\ schTick' = [schTick EXCEPT ![g] = "blocked"]
  /\ schWait' = [schWait EXCEPT ![g] = Len(schChans)]
  /\ UNCHANGED <<schRunning, schChans, schInit, schManual, schEvent, schLast>>
  /\ UNCHANGED notSched

\* SRScheduler.FetchNow: fetchAndProcess on the caller's goroutine
FetchNowBegin ==
  /\ schManual < MaxManual
  /\ schManual' = schManual + 1
  /\ UNCHANGED <<schRunning, schChans, schInit, schTick, schEvent, schWait,
                 schLast>>
  /\ UNCHANGED notSched

FetchNowEnd ==
  /\ schManual > 0
  /\ schManual' = schManual - 1
  /\ UNCHANGED <<schRunning, schChans, schInit, schTick, schEvent, schWait,
                 schLast>>
  /\ UNCHANGED notSched

\* calls of fetchAndProcess in flight
FetchesInFlight ==
  Cardinality({g \in Gens : schInit[g] = "fetch"})
    + Cardinality({g \in Gens : schTick[g] = "fetch"})
    + schManual

SchedNext ==
  \/ SchedStart
  \/ SchedStop
  \/ \E g \in Gens : InitFetchBegin(g)
  \/ \E g \in Gens : InitFetchEnd(g)
  \/ \E g \in Gens : TickerEvent(g)
  \/ \E g \in Gens : TickerFetchBegin(g)
  \/ \E g \in Gens : TickerFetchEnd(g)
  \/ \E g \in Gens : TickerStop(g)
  \/ \E g \in Gens : TickerBlock(g)
  \/ FetchNowBegin
  \/ FetchNowEnd

-----------------------------------------------------------------------------
(* Functions taken alone.  A call is drawn with its arguments; one step    *)
(* applies the function.  Midpoints are whole dollars, thresholds whole    *)
(* percents; a float64 quotient is kept as an exact fraction, with the     *)
(* two special values a division by zero gives.                            *)

notPure == <<botVars, startVars, saveVars, paperVars, schedVars, fetchVars,
             snapVars, clientVars, walletVars, engineVars>>

Abs(x) == IF x < 0 THEN 0 - x ELSE x

\* a previous S/R sample: GetLatest's row, or nil
NoPrevious == [present |-> FALSE, Midpoint |-> 0]
Previous(mid) == [present |-> TRUE, Midpoint |-> mid]

\* math.Abs((new - previous) / previous * 100)
PercentChange(newMidpoint, prevMidpoint) ==
  IF prevMidpoint = 0
  THEN [kind |-> IF newMidpoint = 0 THEN "NaN" ELSE "Inf", num |-> 0,
        den |-> 1]
  ELSE [kind |-> "num", num |-> Abs(newMidpoint - prevMidpoint) * 100,
        den |-> Abs(prevMidpoint)]

\* pct > thresholdPercent
MoreThan(pct, thresholdPercent) ==
  CASE pct.kind = "NaN" -> FALSE
    [] pct.kind = "Inf" -> TRUE
    [] OTHER -> pct.num > thresholdPercent * pct.den

\* pct >= thresholdPercent
AtLeast(pct, thresholdPercent) ==
  CASE pct.kind = "NaN" -> FALSE
    [] pct.kind = "Inf" -> TRUE
    [] OTHER -> pct.num >= thresholdPercent * pct.den

\* SRRepo.CheckSignificantChange, given what GetLatest returned
CheckSignificantChange(previous, newMidpoint, thresholdPercent) ==
  IF ~previous.present
  THEN [HasChanged |-> TRUE, Reason |-> "First S/R fetch"]
  ELSE LET pct == PercentChange(newMidpoint, previous.Midpoint)
           changed == AtLeast(pct, thresholdPercent)
       IN [HasChanged |-> changed,
           Reason |-> IF changed THEN "Midpoint changed" ELSE "S/R stable"]

\* SupportResistance.HasChangedSignificantly
HasChangedSignificantly(previous, newMidpoint, thresholdPercent) ==
  IF ~previous.present \/ previous.Midpoint = 0
  THEN TRUE
  ELSE AtLeast(PercentChange(newMidpoint, previous.Midpoint),
               thresholdPercent)

\* the samples and thresholds the detector is called with
PrevMidpoints == {0, 2000, 2700}
NewMidpoints == {0, 1900, 1901, 2000, 2099, 2100, 2101, 2565, 2800, 2835,
                 2900}
Thresholds == {0, SRChangeThreshold, 50}

ChangeCalls ==
  [fn : {"CheckSignificantChange", "HasChangedSignificantly"},
   previous : {NoPrevious} \cup {Previous(m) : m \in PrevMidpoints},
   newMidpoint : NewMidpoints, threshold : Thresholds, done : {FALSE}]

PureIdle == pure = [fn |-> "none", done |-> FALSE]

\* grids of up to MaxGridLen levels, each on any side, at either price,
\* filled or not, with Index the position
PureLevelPrices == {1500, 2500}

PureLevel(sd, p, f) ==
  [index |-> 0, price |-> p, side |-> sd, quantity |-> 1, filled |-> f,
   filledAt |-> IF f THEN 1 ELSE 0, txHash |-> IF f THEN 1 ELSE 0]

PureLevels ==
  {PureLevel(sd, p, f) :
     sd \in {"buy", "sell"}, p \in PureLevelPrices, f \in BOOLEAN}

Indexed(g) == [k \in DOMAIN g |-> [g[k] EXCEPT !.index = k - 1]]

PureGrids ==
  UNION {{Indexed(g) : g \in [1..n -> PureLevels]} : n \in 0..MaxGridLen}

PurePrices == {1000, 1500, 2000, 2500, 3000}

TriggerCalls ==
  [fn : {"FindTriggeredLevel"}, currentPrice : PurePrices, grid : PureGrids,
   done : {FALSE}]

ResetCalls ==
  {[fn |-> "resetOppositeLevel", grid |-> g, level |-> k, done |-> FALSE] :
     g \in PureGrids, k \in 0..(MaxGridLen - 1)}

\* GridParams, valid and not
GridCenters == {0 - 5, 0, 1000, 2000}
GridCounts == {0, 1, 2, 3, 4, 5}
GridSpacings == {0 - 1, 0, 1, GridSpacingPercent}
GridAmounts == {0 - 100, 0, AmountPerGrid, 250}

GridCalls ==
  [fn : {"CalculateGridLevels"}, CenterPrice : GridCenters,
   LevelCount : GridCounts, SpacingPercent : GridSpacings,
   AmountPerGrid : GridAmounts, done : {FALSE}]

\* api: the middleware of the REST server.  A header value or key is a
\* sequence of characters; a response is its status, its CORS headers ("" for
\* a header not set) and how far the request came.
Bearer == <<"B", "e", "a", "r", "e", "r", " ">>

HasPrefix(str, prefix) ==
  Len(str) >= Len(prefix) /\ SubSeq(str, 1, Len(prefix)) = prefix

\* strings.TrimPrefix
TrimPrefix(str, prefix) ==
  IF HasPrefix(str, prefix) THEN SubSeq(str, Len(prefix) + 1, Len(str))
  ELSE str

NoResponse ==
  [status |-> 0, AllowOrigin |-> "", AllowMethods |-> "", AllowHeaders |-> "",
   inner |-> FALSE, routed |-> FALSE]

\* writeError(w, http.StatusUnauthorized, ...)
Unauthorized(w) == [w EXCEPT !.status = 401]

\* the handler of the middleware tests: w.WriteHeader(http.StatusOK)
InnerOK(w, r) == [w EXCEPT !.status = 200, !.inner = TRUE]

\* the routes NewServer registers, all for GET, of which the model keeps two
Routes == {"/v1/prices/today", "/health"}

\* the ServeMux: a route handler, 405 for another method, 404 for no route
Mux(w, r) ==
  IF r.Path \notin Routes THEN [w EXCEPT !.status = 404, !.inner = TRUE]
  ELSE IF r.Method # "GET" THEN [w EXCEPT !.status = 405, !.inner = TRUE]
  ELSE [w EXCEPT !.status = 200, !.inner = TRUE, !.routed = TRUE]

\* the test of the token without the scheme
TokenMismatch(token, auth, apiKey) == token # apiKey

\* token == auth || token != s.apiKey
TokenRejected(token, auth, apiKey) == token = auth \/ token # apiKey

\* an http.Handler is a record: the test handler, the ServeMux, or a
\* middleware around its next handler
RECURSIVE ServeHTTP(_, _, _)

authMiddleware(h, w, r) ==
  IF h.apiKey = <<>> \/ r.Path = "/health" THEN ServeHTTP(h.next, w, r)
  ELSE IF r.Authorization = <<>> THEN Unauthorized(w)
  ELSE IF TokenRejected(TrimPrefix(r.Authorization, Bearer),
                        r.Authorization, h.apiKey)
  THEN Unauthorized(w)
  ELSE ServeHTTP(h.next, w, r)

corsMiddleware(h, w, r) ==
  LET w1 == [w EXCEPT
               !.AllowOrigin = IF h.allowOrigin = "" THEN "*"
                               ELSE h.allowOrigin,
               !.AllowMethods = "GET, OPTIONS",
               !.AllowHeaders = "Content-Type, Authorization"]
  IN IF r.Method = "OPTIONS" THEN [w1 EXCEPT !.status = 200]
     ELSE ServeHTTP(h.next, w1, r)

ServeHTTP(h, w, r) ==
  CASE h.kind = "auth" -> authMiddleware(h, w, r)
    [] h.kind = "cors" -> corsMiddleware(h, w, r)
    [] h.kind = "mux" -> Mux(w, r)
    [] OTHER -> InnerOK(w, r)

\* s.authMiddleware(next)
WithAuth(next, apiKey) == [kind |-> "auth", next |-> next, apiKey |-> apiKey]

\* corsMiddleware(next, allowOrigin)
WithCors(next, allowOrigin) ==
  [kind |-> "cors", next |-> next, allowOrigin |-> allowOrigin]

\* the handler NewServer installs
ServerHandler(apiKey, corsOrigin) ==
  WithAuth(WithCors([kind |-> "mux"], corsOrigin), apiKey)

Key1 == <<"k", "1">>
Key2 == <<"k", "2">>

ApiKeys == {<<>>, Key1, Bearer \o Key1}

AuthHeaders ==
  {<<>>, Key1, Bearer, Bearer \o Key1, Bearer \o Key2,
   Bearer \o Key1 \o <<"x">>, Bearer \o Bearer \o Key1,
   <<"b">> \o Tail(Bearer) \o Key1, <<"B", "a", "s", "i", "c", " ">> \o Key1}

Requests ==
  [Method : {"GET", "OPTIONS", "POST"},
   Path : {"/health", "/v1/prices/today", "/health/", "/v1/nothing"},
   Authorization : AuthHeaders]

AuthCalls ==
  [fn : {"authMiddleware"}, apiKey : ApiKeys, r : Requests, done : {FALSE}]

ServeCalls ==
  [fn : {"ServeHTTP"}, apiKey : ApiKeys,
   corsOrigin : {"", "https://app.example"}, r : Requests, done : {FALSE}]

\* the limits and counters of the guardian's calls, in dollars and percent
LimitSets ==
  [MaxDailyTrades : {0 - 1, 0, 2}, MaxPositionSizeUSD : {0 - 1, 0, 500},
   StopLossPercent : {0 - 1, 0, 10}, TakeProfitPercent : {0 - 1, 0, 20}]

Counters ==
  {NilCounter} \cup {Counter(n, FALSE) : n \in 0..3} \cup {Counter(0, TRUE)}

PreTradeCalls ==
  [fn : {"PreTradeCheck"}, limits : LimitSets,
   tradeUSDValue : {0, 499, 500, 501, 999999}, counter : Counters,
   done : {FALSE}]

PortfolioCalls ==
  [fn : {"PortfolioCheck"}, limits : LimitSets,
   pnlPercent : {0 - 11, 0 - 10, 0 - 9, 0, 19, 20, 21}, done : {FALSE}]

\* days since 2022-01-01: 2023-01-01, 2023-02-28, 2023-03-01, 2024-01-15,
\* 2024-02-29, 2024-03-01, 2024-12-31, 2025-01-01
CallDays == {365, 423, 424, 744, 789, 790, 1095, 1096}

\* minutes of the day: midnight, 16:00, 16:59, 17:00, 17:01, 18:00, 23:59
CallMinutes == {0, 960, 1019, 1020, 1021, 1080, 1439}

TradingDayCalls ==
  [fn : {"TradingDay"}, ts : {d * 1440 + mm : d \in CallDays, mm \in CallMinutes},
   done : {FALSE}]

PureCalls ==
  ChangeCalls \cup TriggerCalls
    \cup {c \in ResetCalls : c.level < Len(c.grid)}
    \cup GridCalls \cup PreTradeCalls \cup PortfolioCalls
    \cup TradingDayCalls \cup AuthCalls \cup ServeCalls

PureInit == pure \in PureCalls

\* the call returns out
Return(out) ==
  /\ ~pure.done
  /\ pure' = [pure EXCEPT !.done = TRUE] @@ [out |-> out]
  /\ UNCHANGED notPure

ApplyCheckSignificantChange ==
  /\ pure.fn = "CheckSignificantChange"
  /\ Return(CheckSignificantChange(pure.previous, pure.newMidpoint,
                                   pure.threshold).HasChanged)

ApplyHasChangedSignificantly ==
  /\ pure.fn = "HasChangedSignificantly"
  /\ Return(HasChangedSignificantly(pure.previous, pure.newMidpoint,
                                    pure.threshold))

ApplyFindTriggeredLevel ==
  /\ pure.fn = "FindTriggeredLevel"
  /\ Return(FindTriggeredLevel(pure.currentPrice, pure.grid))

\* resetOppositeLevel with a pointer to level pure.level of the grid
ApplyResetOppositeLevel ==
  /\ pure.fn = "resetOppositeLevel"
  /\ LET filled == pure.grid[pure.level + 1]
     IN Return(resetOppositeLevel(pure.grid, filled.side, filled.index))

ApplyCalculateGridLevels ==
  /\ pure.fn = "CalculateGridLevels"
  /\ Return(CalculateGridLevels(pure.CenterPrice, pure.LevelCount,
                                pure.SpacingPercent, pure.AmountPerGrid))

ApplyPreTradeCheck ==
  /\ pure.fn = "PreTradeCheck"
  /\ Return(GuardianPreTradeCheck(pure.limits, pure.tradeUSDValue,
                                  pure.counter))

ApplyPortfolioCheck ==
  /\ pure.fn = "PortfolioCheck"
  /\ Return(GuardianPortfolioCheck(pure.limits, pure.pnlPercent))

ApplyTradingDay ==
  /\ pure.fn = "TradingDay"
  /\ Return(TradingDay(pure.ts))

\* a request served by authMiddleware(inner), as in the middleware tests
ApplyAuthMiddleware ==
  /\ pure.fn = "authMiddleware"
  /\ Return(ServeHTTP(WithAuth([kind |-> "inner"], pure.apiKey), NoResponse,
                      pure.r))

\* a request served by the server's handler
ApplyServeHTTP ==
  /\ pure.fn = "ServeHTTP"
  /\ Return(ServeHTTP(ServerHandler(pure.apiKey, pure.corsOrigin),
                      NoResponse, pure.r))

PureNext ==
  \/ ApplyAuthMiddleware
  \/ ApplyServeHTTP
  \/ ApplyPreTradeCheck
  \/ ApplyPortfolioCheck
  \/ ApplyTradingDay
  \/ ApplyCalculateGridLevels
  \/ ApplyCheckSignificantChange
  \/ ApplyHasChangedSignificantly
  \/ ApplyFindTriggeredLevel
  \/ ApplyResetOppositeLevel

-----------------------------------------------------------------------------
(* scheduler: one fetchAndProcess, statement by statement.  The calls out  *)
(* of it (Dune, the S/R repository, the bot's accessor) answer with any    *)
(* value they can give.                                                    *)

notFetch == <<botVars, startVars, saveVars, paperVars, schedVars, snapVars,
              pureVars, clientVars, walletVars, engineVars>>

\* strategy.IsPriceOutsideGrid
IsPriceOutsideGrid(currentPrice, grid) ==
  IF Len(grid) = 0 THEN TRUE
  ELSE LET ps == {grid[k].price : k \in DOMAIN grid}
           lo == CHOOSE x \in ps : \A y \in ps : x <= y
           hi == CHOOSE x \in ps : \A y \in ps : x >= y
       IN currentPrice < lo \/ currentPrice > hi

\* strategy.AreAllSideFilled
AreAllSideFilled(grid, side) ==
  LET count == Cardinality({k \in DOMAIN grid : grid[k].side = side})
      filled == Cardinality({k \in DOMAIN grid :
                               grid[k].side = side /\ grid[k].filled})
  IN IF count = 0 THEN FALSE ELSE filled = count

\* what GetBotState can return: nil, or a copy of a grid with any levels
\* filled and the last price
NoBotState == [present |-> FALSE, Grid |-> <<>>, LastETHPrice |-> 0]

WithFilled(grid, F) ==
  [k \in DOMAIN grid |-> [grid[k] EXCEPT !.filled = (k \in F)]]

BotStates ==
  LET g == CalculateGridLevels(2000, GridLevels, GridSpacingPercent,
                               AmountPerGrid)
  IN {NoBotState} \cup
     {[present |-> TRUE, Grid |-> WithFilled(g, F), LastETHPrice |-> lp] :
        F \in SUBSET (DOMAIN g), lp \in {0} \cup Prices}

\* the midpoints Dune answers with
FetchedMidpoints == {2000, 2099, 2100}

FpIdle == [pc |-> "idle", Midpoint |-> 0, previous |-> NoPrevious,
           shouldRecalculate |-> FALSE, bot |-> NoBotState,
           calls |-> <<>>, recorded |-> FALSE]

FetchInit ==
  /\ fp = FpIdle
  /\ srRows = <<>>
  /\ fetches = 0

\* SRRepo.GetLatest
GetLatest ==
  IF srRows = <<>> THEN NoPrevious ELSE Previous(srRows[Len(srRows)].Midpoint)

\* s.dune.FetchSupportResistance; an error returns from fetchAndProcess
FPFetch ==
  /\ fp.pc = "idle"
  /\ fetches < MaxFetches
  /\ fetches' = fetches + 1
  /\ \E mid \in {0} \cup FetchedMidpoints :
       fp' = IF mid = 0 THEN FpIdle
             ELSE [FpIdle EXCEPT !.pc = "check", !.Midpoint = mid]
  /\ UNCHANGED srRows
  /\ UNCHANGED notFetch

\* condition 1: s.srRepo.CheckSignificantChange; a failed query is a warning
FPCheckChange ==
  /\ fp.pc = "check"
  /\ \E ok \in BOOLEAN :
       LET change == CheckSignificantChange(GetLatest, fp.Midpoint,
                                            SRChangeThreshold)
       IN fp' = [fp EXCEPT !.pc = "botState",
                           !.previous = GetLatest,
                           !.shouldRecalculate = ok /\ change.HasChanged]
  /\ UNCHANGED <<srRows, fetches>>
  /\ UNCHANGED notFetch

\* conditions 2 and 3: s.cfg.GetBotState
FPBotState ==
  /\ fp.pc = "botState"
  /\ \E bot \in BotStates :
       LET usable == bot.present /\ Len(bot.Grid) > 0
           outside == bot.LastETHPrice > 0
                        /\ IsPriceOutsideGrid(bot.LastETHPrice, bot.Grid)
           allFilled == AreAllSideFilled(bot.Grid, "buy")
                          \/ AreAllSideFilled(bot.Grid, "sell")
       IN fp' = [fp EXCEPT !.pc = "record",
                           !.bot = bot,
                           !.shouldRecalculate =
                              @ \/ (usable /\ (outside \/ allFilled))]
  /\ UNCHANGED <<srRows, fetches>>
  /\ UNCHANGED notFetch

\* s.srRepo.Record; an error returns from fetchAndProcess
FPRecord ==
  /\ fp.pc = "record"
  /\ \E ok \in BOOLEAN :
       IF ok
       THEN /\ srRows' = Append(srRows,
                           [Midpoint |-> fp.Midpoint,
                            GridRecalculated |-> fp.shouldRecalculate])
            /\ fp' = [fp EXCEPT !.pc = "update", !.recorded = TRUE]
       ELSE /\ fp' = [fp EXCEPT !.pc = "done"]
            /\ UNCHANGED srRows
  /\ UNCHANGED fetches
  /\ UNCHANGED notFetch

\* s.cfg.OnSRUpdate(sr)
FPOnSRUpdate ==
  /\ fp.pc = "update"
  /\ fp' = [fp EXCEPT !.calls = Append(@, "OnSRUpdate"),
                      !.pc = IF fp.shouldRecalculate THEN "recalculate"
                             ELSE "done"]
  /\ UNCHANGED <<srRows, fetches>>
  /\ UNCHANGED notFetch

\* s.cfg.OnGridRecalculate(sr)
FPOnGridRecalculate ==
  /\ fp.pc = "recalculate"
  /\ fp' = [fp EXCEPT !.calls = Append(@, "OnGridRecalculate"),
                      !.pc = "done"]
  /\ UNCHANGED <<srRows, fetches>>
  /\ UNCHANGED notFetch

\* fetchAndProcess returns
FPReturn ==
  /\ fp.pc = "done"
  /\ fp' = FpIdle
  /\ UNCHANGED <<srRows, fetches>>
  /\ UNCHANGED notFetch

FetchNext ==
  \/ FPFetch
  \/ FPCheckChange
  \/ FPBotState
  \/ FPRecord
  \/ FPOnSRUpdate
  \/ FPOnGridRecalculate
  \/ FPReturn

-----------------------------------------------------------------------------
(* The scheduler's accessor to the bot, beside the running bot.            *)

\* Service.BotState, called on the scheduler's goroutine: under s.mu, which
\* neither the tick nor InitializeGrid holds, nil without a bot or a grid,
\* else a copy of the grid and the last price.  The scheduler keeps the
\* value it got.
BotState ==
  /\ Alive
  /\ mainPc \in {"serving", "shutdown", "stopped"}
  /\ ~snap.present
  /\ snap' = IF ~svcBot \/ Len(Grid) = 0 THEN NoBotState
             ELSE [present |-> TRUE, Grid |-> Grid,
                   LastETHPrice |-> LastETHPrice]
  /\ UNCHANGED <<botVars, startVars, saveVars, paperVars, schedVars,
                 fetchVars, pureVars, clientVars, walletVars, engineVars>>

SnapNext ==
  \/ BotNext
  \/ BotState

-----------------------------------------------------------------------------
(* httputil.Do: one call, statement by statement, beside the owner of its  *)
(* context.  Durations are in units of 50 ms.  A response is its status    *)
(* code; 0 stands for an error of client.Do.                               *)

notRetry == <<botVars, startVars, saveVars, paperVars, schedVars, fetchVars,
              snapVars, pureVars, dune, walletVars, engineVars>>

\* RetryConfig.MaxAttempts of the calls
RetryAttempts == {0 - 1, 0, 1, 2, 5}

\* what client.Do answers
Responses == {0, 200, 400, 404, 500, 502, 503}

Failed(r) == r = 0 \/ r >= 500

RtIdle == [pc |-> "idle", cfg |-> 0, MaxAttempts |-> 0, attempt |-> 0, delay |-> 0,
           builds |-> 0, seen |-> <<>>, lastErr |-> 0 - 1, ctx |-> "live",
           inBackoff |-> FALSE, result |-> "none", count |-> 0]

RetryIdle == rt = RtIdle

RetryInit ==
  \E n \in RetryAttempts : rt = [RtIdle EXCEPT !.pc = "enter", !.cfg = n, !.MaxAttempts = n]

\* cfg.MaxAttempts as given
RawMaxAttempts(n) == n

\* cfg.MaxAttempts after the default is applied
EffectiveMaxAttempts(n) == IF n <= 0 THEN DefaultMaxAttempts ELSE n

\* return nil, fmt.Errorf("all %d attempts failed, last error: %w", ...)
AllFailed(r) ==
  [r EXCEPT !.pc = "returned", !.result = "allFailed",
            !.count = r.MaxAttempts]

\* the loop condition attempt <= cfg.MaxAttempts
LoopTest(r) ==
  IF r.attempt <= r.MaxAttempts THEN [r EXCEPT !.pc = "build"]
  ELSE AllFailed(r)

\* Do: the default of MaxAttempts, delay := cfg.BaseDelay, attempt := 1
DoEnter ==
  /\ rt.pc = "enter"
  /\ rt' = LoopTest([rt EXCEPT
                       !.MaxAttempts = EffectiveMaxAttempts(rt.MaxAttempts),
                       !.delay = RetryBaseDelay, !.attempt = 1])
  /\ UNCHANGED notRetry

\* req, err := buildReq(); an error returns
DoBuild ==
  /\ rt.pc = "build"
  /\ \E ok \in BOOLEAN :
       rt' = IF ok THEN [rt EXCEPT !.pc = "send", !.builds = @ + 1]
             ELSE [rt EXCEPT !.pc = "returned", !.builds = @ + 1,
                             !.result = "buildErr"]
  /\ UNCHANGED notRetry

\* client.Do(req): a response below 500 is returned; otherwise lastErr is
\* set and the loop breaks after the last attempt or goes to the select
DoSend ==
  /\ rt.pc = "send"
  /\ \E r \in Responses :
       LET r1 == [rt EXCEPT !.seen = Append(@, r)]
       IN rt' = IF ~Failed(r)
                THEN [r1 EXCEPT !.pc = "returned", !.result = "response"]
                ELSE IF rt.attempt = rt.MaxAttempts
                THEN AllFailed([r1 EXCEPT !.lastErr = r])
                ELSE [r1 EXCEPT !.lastErr = r, !.pc = "select"]
  /\ UNCHANGED notRetry

\* select { case <-ctx.Done(): return nil, ctx.Err(); case <-time.After(delay) }
\* entered: a context already done is taken, else the goroutine waits
DoSelect ==
  /\ rt.pc = "select"
  /\ rt' = IF rt.ctx # "live"
           THEN [rt EXCEPT !.pc = "returned", !.result = rt.ctx]
           ELSE [rt EXCEPT !.pc = "backoff"]
  /\ UNCHANGED notRetry

\* the timer fires for the waiting goroutine: delay *= 2, capped; attempt++
DoBackoffElapsed ==
  /\ rt.pc = "backoff"
  /\ rt' = LoopTest([rt EXCEPT
                       !.delay = IF 2 * @ > RetryMaxDelay THEN RetryMaxDelay
                                 ELSE 2 * @,
                       !.attempt = @ + 1])
  /\ UNCHANGED notRetry

\* the context ends and a waiting Do sleeps on
CtxEndUnnoticed ==
  /\ rt.pc \notin {"idle", "returned"}
  /\ rt.ctx = "live"
  /\ \E cause \in {"canceled", "deadline"} : rt' = [rt EXCEPT !.ctx = cause]
  /\ UNCHANGED notRetry

\* the owner of the context cancels it, or its deadline passes; a Do
\* waiting in the select returns ctx.Err()
CtxEnd ==
  /\ rt.pc \notin {"idle", "returned"}
  /\ rt.ctx = "live"
  /\ \E cause \in {"canceled", "deadline"} :
       rt' = IF rt.pc = "backoff"
             THEN [rt EXCEPT !.ctx = cause, !.pc = "returned",
                             !.result = cause, !.inBackoff = TRUE]
             ELSE [rt EXCEPT !.ctx = cause]
  /\ UNCHANGED notRetry

RetryNext ==
  \/ DoEnter
  \/ DoBuild
  \/ DoSend
  \/ DoSelect
  \/ DoBackoffElapsed
  \/ CtxEnd

-----------------------------------------------------------------------------
(* DuneClient: the cache of FetchSupportResistance, with the run loop and  *)
(* the scheduler as its two callers.  Time is in hours.  cachedResult is    *)
(* the Midpoint of the SRResult the cache points to, 0 for nil, and        *)
(* cachedSR that SRResult with all its float64 fields.                     *)

notDune == <<botVars, startVars, saveVars, paperVars, schedVars, fetchVars,
             snapVars, pureVars, rt, walletVars, engineVars>>

DuneCallers == {"bot", "sched"}

\* executeQuery without rows to read: an error, or an empty result
QueryOutcomes == {"error", "empty"}

\* math.NaN(), which jsonFloat gives for a missing or non-numeric column
NaN == 0 - 1

IsNaN(x) == x = NaN

\* a >= b on float64: false when either is NaN
GreaterEq(a, b) == ~IsNaN(a) /\ ~IsNaN(b) /\ a >= b

\* the float64 fields of an SRResult
SRResult(support, resistance, midpoint, avgPrice) ==
  [Support |-> support, Resistance |-> resistance, Midpoint |-> midpoint,
   AvgPrice |-> avgPrice]

NoSR == SRResult(0, 0, 0, 0)

\* the first row of an answer, read by jsonFloat column by column
QueryRows ==
  {SRResult(1900, 2100, 2000, 2000), SRResult(2000, 2200, 2100, 2100),
   SRResult(NaN, 2100, 2000, 2000), SRResult(1900, NaN, 2000, 2000),
   SRResult(1900, 2100, NaN, 2000), SRResult(1900, 2100, 2000, NaN),
   SRResult(2000, 2000, 2000, 2000), SRResult(2100, 1900, 2000, 2000)}

\* the rows of support_resistance_history, which the scheduler records from
\* results a fetch returned; main hands SeedCache the latest without its
\* avg_price
SeedRows == {SRResult(1900, 2100, 2000, 0), SRResult(2000, 2200, 2100, 0)}

\* the checks of FetchSupportResistance on the result it has built
InvalidData(result) ==
  IsNaN(result.Support) \/ IsNaN(result.Resistance)
    \/ IsNaN(result.Midpoint)

InvalidRange(result) == GreaterEq(result.Support, result.Resistance)

NoCall == [pc |-> "idle", force |-> FALSE, err |-> FALSE, out |-> 0,
           copied |-> FALSE, queried |-> FALSE, answer |-> "none",
           row |-> NoSR]

\* NewDuneClient
NewDuneClient(RefreshHours) ==
  [cacheTTL |-> IF RefreshHours <= 0 THEN DefaultRefreshHours
                ELSE RefreshHours,
   cachedResult |-> 0, cachedSR |-> NoSR, lastFetch |-> 0, now |-> 0,
   queries |-> 0,
   seeded |-> FALSE, call |-> [c \in DuneCallers |-> NoCall]]

DuneIdle == dune = NewDuneClient(0)

DuneInit == \E h \in {0, 1, 2} : dune = NewDuneClient(h)

\* time.Since(d.lastFetch)
Since(d) == d.now - d.lastFetch

\* the cache test of FetchSupportResistance, without the age
CacheHitAnyAge(d, forceRefresh) == ~forceRefresh /\ d.cachedResult # 0

\* the cache test of FetchSupportResistance
CacheHit(d, forceRefresh) ==
  ~forceRefresh /\ d.cachedResult # 0 /\ Since(d) < d.cacheTTL

NeedsRefresh(d) ==
  IF d.cachedResult = 0 THEN TRUE ELSE Since(d) >= d.cacheTTL

\* SeedCache at start-up, with a result persisted age hours ago
SeedCache ==
  /\ ~dune.seeded /\ dune.queries = 0
  /\ \A c \in DuneCallers : dune.call[c] = NoCall
  /\ \E sr \in {NoSR} \cup SeedRows, age \in 0..2 :
       dune' = IF sr = NoSR \/ age >= dune.cacheTTL
               THEN [dune EXCEPT !.seeded = TRUE]
               ELSE [dune EXCEPT !.seeded = TRUE,
                                 !.cachedResult = sr.Midpoint,
                                 !.cachedSR = sr,
                                 !.lastFetch = dune.now - age]
  /\ UNCHANGED notDune

\* FetchSupportResistance up to the cache test: a hit returns a copy
DuneFetchBegin(c) ==
  /\ dune.call[c].pc = "idle"
  /\ dune.queries < MaxQueries
  /\ \E forceRefresh \in BOOLEAN :
       dune' = IF CacheHit(dune, forceRefresh)
               THEN [dune EXCEPT !.call[c] =
                       [NoCall EXCEPT !.force = forceRefresh,
                                      !.out = dune.cachedResult,
                                      !.copied = TRUE]]
               ELSE [dune EXCEPT !.queries = @ + 1,
                                 !.call[c] =
                       [NoCall EXCEPT !.pc = "query", !.queried = TRUE,
                                      !.force = forceRefresh]]
  /\ UNCHANGED notDune

\* executeQuery has answered: errors return, a valid first row is cached
DuneFetchEnd(c) ==
  /\ dune.call[c].pc = "query"
  /\ \/ \E o \in QueryOutcomes :
          dune' = [dune EXCEPT !.call[c].pc = "idle", !.call[c].err = TRUE,
                               !.call[c].answer = o]
     \/ \E result \in QueryRows :
          dune' = IF InvalidData(result) \/ InvalidRange(result)
                  THEN [dune EXCEPT !.call[c].pc = "idle",
                                    !.call[c].err = TRUE,
                                    !.call[c].answer = "row",
                                    !.call[c].row = result]
                  ELSE [dune EXCEPT !.call[c].pc = "idle",
                                    !.call[c].answer = "row",
                                    !.call[c].row = result,
                                    !.call[c].out = result.Midpoint,
                                    !.cachedResult = result.Midpoint,
                                    !.cachedSR = result,
                                    !.lastFetch = dune.now]
  /\ UNCHANGED notDune

\* an hour passes
DuneClock ==
  /\ dune.now < MaxClock
  /\ dune' = [dune EXCEPT !.now = @ + 1]
  /\ UNCHANGED notDune

DuneNext ==
  \/ SeedCache
  \/ \E c \in DuneCallers : DuneFetchBegin(c)
  \/ \E c \in DuneCallers : DuneFetchEnd(c)
  \/ DuneClock

-----------------------------------------------------------------------------
(* The paper wallet and grid_state: the process starts (PaperWallet.Init), *)
(* trades on paper, saves its grid state, and ends; the table remains.     *)
(* A row is its is_active flag and its paper_* columns.                    *)

notWallet == <<botVars, startVars, saveVars, paperVars, schedVars, fetchVars,
               snapVars, pureVars, clientVars, engineVars>>

\* the paper_* columns of a row that never had them written
NullPaper ==
  [ethNull |-> TRUE, eth |-> 0, usdc |-> 0, gas |-> 0, trades |-> 0,
   initialNull |-> TRUE, initialETH |-> 0, initialUSDC |-> 0]

\* no process has run yet, the table is empty
WalletInit ==
  /\ gsTable = <<>>
  /\ pwMem = [up |-> FALSE, runs |-> 0, failed |-> FALSE,
              w |-> NewPaperWallet(PaperInitialETH, PaperInitialUSDC)]

\* GetActive: the active row (the newest of them), 0 for none
GetActive(table) ==
  LET ids == {i \in 1..Len(table) : table[i].active}
  IN IF ids = {} THEN 0 ELSE CHOOSE i \in ids : \A j \in ids : j <= i

\* GridStateRepo.UpdatePaperWallet: UPDATE ... WHERE is_active = true
UpdatePaperWallet(table, w) ==
  [i \in 1..Len(table) |->
     IF table[i].active
     THEN [table[i] EXCEPT !.paper.ethNull = FALSE, !.paper.eth = w.eth,
                           !.paper.usdc = w.usdc, !.paper.gas = w.gas,
                           !.paper.trades = w.trades]
     ELSE table[i]]

\* GridStateRepo.InitializePaperWallet
InitializePaperWallet(table, initialETH, initialUSDC) ==
  IF GetActive(table) # 0 /\ ~table[GetActive(table)].paper.ethNull
  THEN table
  ELSE [i \in 1..Len(table) |->
          IF table[i].active
          THEN [table[i] EXCEPT !.paper =
                  [ethNull |-> FALSE, eth |-> initialETH,
                   usdc |-> initialUSDC, gas |-> 0, trades |-> 0,
                   initialNull |-> FALSE, initialETH |-> initialETH,
                   initialUSDC |-> initialUSDC]]
          ELSE table[i]]

\* GridStateRepo.Save: the active rows made inactive, a row inserted with
\* base_price, grid_levels_json, trades_executed, total_profit and
\* last_sr_refresh
Save(table) ==
  Append([i \in 1..Len(table) |-> [table[i] EXCEPT !.active = FALSE]],
         [active |-> TRUE, paper |-> NullPaper])

\* GridBot.Init in paper mode: NewPaperWallet, then PaperWallet.Init loads
\* the wallet of the active row or starts a fresh one
PaperWalletInit ==
  /\ ~pwMem.up
  /\ pwMem.runs < MaxStarts
  /\ LET row == GetActive(gsTable)
         state == IF row = 0 THEN NullPaper ELSE gsTable[row].paper
         fresh == NewPaperWallet(PaperInitialETH, PaperInitialUSDC)
     IN IF ~state.ethNull /\ state.eth > 0
        THEN /\ pwMem' = [pwMem EXCEPT
                            !.up = TRUE, !.runs = @ + 1,
                            !.w = [eth |-> state.eth, usdc |-> state.usdc,
                                   gas |-> state.gas,
                                   trades |-> state.trades,
                                   initialETH |-> state.initialETH,
                                   initialUSDC |-> state.initialUSDC]]
             /\ UNCHANGED gsTable
        ELSE /\ pwMem' = [pwMem EXCEPT !.up = TRUE, !.runs = @ + 1,
                                       !.w = fresh]
             /\ gsTable' = InitializePaperWallet(gsTable, PaperInitialETH,
                                                 PaperInitialUSDC)
  /\ UNCHANGED notWallet

\* InitializeGrid or a rebuild: saveState, whose error is only logged
WalletGridSave ==
  /\ pwMem.up
  /\ Len(gsTable) < MaxRows
  /\ \E ok \in BOOLEAN :
       /\ gsTable' = IF ok THEN Save(gsTable) ELSE gsTable
       /\ pwMem' = [pwMem EXCEPT !.failed = @ \/ ~ok]
  /\ UNCHANGED notWallet

\* executeSwap on paper: the wallet's ExecuteBuy or ExecuteSell, DeductGas
\* and RecordTrade, each followed by PaperWallet.save, then saveState
WalletTrade ==
  /\ pwMem.up
  /\ Len(gsTable) # 0
  /\ Len(gsTable) < MaxRows
  /\ pwMem.w.trades < MaxPaperTrades
  /\ \E side \in {"buy", "sell"}, price \in PaperLevelPrices,
        okWallet \in BOOLEAN, okState \in BOOLEAN :
       LET ethAmount == (AmountPerGrid * 1000000) \div 1500
           r == executePaperSwap(pwMem.w, side, ethAmount,
                                 ValueOf(ethAmount, price), MaxSlip)
           t1 == IF okWallet THEN UpdatePaperWallet(gsTable, r.w)
                 ELSE gsTable
       IN /\ r.ok
          /\ pwMem' = [pwMem EXCEPT !.w = r.w,
                                    !.failed = @ \/ ~okWallet \/ ~okState]
          /\ gsTable' = IF okState THEN Save(t1) ELSE t1
  /\ UNCHANGED notWallet

\* the process ends
WalletProcessEnd ==
  /\ pwMem.up
  /\ pwMem' = [pwMem EXCEPT !.up = FALSE]
  /\ UNCHANGED <<gsTable>>
  /\ UNCHANGED notWallet

WalletNext ==
  \/ PaperWalletInit
  \/ WalletGridSave
  \/ WalletTrade
  \/ WalletProcessEnd

-----------------------------------------------------------------------------
(* The grid over successive ticks: each tick that finds a triggered level  *)
(* fills it (executeSwap) and resets its opposite level.                   *)

notEngine == <<botVars, startVars, saveVars, paperVars, schedVars, fetchVars,
               snapVars, pureVars, clientVars, walletVars>>

NoFill == [side |-> "none", index |-> NoLevel, rearmed |-> NoLevel]

NewEngine(center, count) ==
  [grid |-> CalculateGridLevels(center, count, GridSpacingPercent,
                                AmountPerGrid),
   fill |-> NoFill]

EngineIdle == eng = NewEngine(2000, GridLevels)

\* the level counts (cfg.GridLevels) of the grids
EngineCounts == {2, 3, 4, 5}

\* the centers of the grids
EngineCenters == {1000, 2000}

EngineInit ==
  \E center \in EngineCenters, count \in EngineCounts :
    eng = NewEngine(center, count)

\* the prices the ticks read
EnginePrices == {600, 700, 900, 1000, 1500, 1700, 2000, 2400, 2600, 3200}

\* tick, FindTriggeredLevel, executeSwap (level.Filled = true) and
\* resetOppositeLevel
EngineTick ==
  /\ \E price \in EnginePrices :
       LET k == FindTriggeredLevel(price, eng.grid)
           side == eng.grid[k + 1].side
           filled == [eng.grid EXCEPT ![k + 1] =
                        [@ EXCEPT !.filled = TRUE, !.filledAt = 1,
                                  !.txHash = 1]]
           after == resetOppositeLevel(filled, side, k)
           opposite == GetOppositeLevelIndex(side, k, Len(eng.grid))
       IN /\ k # NoLevel
          /\ eng' = [grid |-> after,
                     fill |-> [side |-> side, index |-> k,
                               rearmed |-> IF after # filled THEN opposite
                                           ELSE NoLevel]]
  /\ UNCHANGED notEngine

EngineNext == EngineTick

-----------------------------------------------------------------------------
(* The specifications.  Each one runs one part; the others stand still.    *)

\* the parts at rest
BotIdle == BotInit /\ paper
SaveIdle == SaveInit /\ rows = <<>>
PaperIdle == PaperInit /\ pw = NewPaperWallet(PaperInitialETH, PaperInitialUSDC)

SnapIdle == snap = NoBotState

RestIdle ==
  PureIdle /\ FetchInit /\ SnapIdle /\ RetryIdle /\ DuneIdle /\ WalletInit
    /\ EngineIdle

Init == BotInit /\ StartInit /\ SaveIdle /\ PaperIdle /\ SchedInit /\ RestIdle

Spec == Init /\ [][BotNext]_vars

InitStart == BotIdle /\ StartInit /\ SaveIdle /\ PaperIdle /\ SchedInit /\ RestIdle

SpecStart == InitStart /\ [][StartNext]_vars

InitSave == BotIdle /\ StartInit /\ SaveInit /\ PaperIdle /\ SchedInit /\ RestIdle

SpecSave == InitSave /\ [][SaveNext]_vars

InitPaper == BotIdle /\ StartInit /\ SaveIdle /\ PaperInit /\ SchedInit /\ RestIdle

SpecPaper == InitPaper /\ [][PaperNext]_vars

InitSched == BotIdle /\ StartInit /\ SaveIdle /\ PaperIdle /\ SchedInit /\ RestIdle

SpecSched == InitSched /\ [][SchedNext]_vars

InitPure ==
  /\ BotIdle /\ StartInit /\ SaveIdle /\ PaperIdle /\ SchedInit
  /\ PureInit /\ FetchInit /\ SnapIdle /\ RetryIdle /\ DuneIdle
  /\ WalletInit /\ EngineIdle

InitFetch == BotIdle /\ StartInit /\ SaveIdle /\ PaperIdle /\ SchedInit /\ RestIdle

SpecFetch == InitFetch /\ [][FetchNext]_vars

\* a bot started on the state an earlier run saved: loadState restores the
\* grid, the base price and the trade count, not the last price
LoadedGrid ==
  CalculateGridLevels(2000, GridLevels, GridSpacingPercent, AmountPerGrid)

RestartInit ==
  /\ mainPc = "boot"
  /\ ctxDone = FALSE
  /\ panicked = FALSE
  /\ paper \in BOOLEAN
  /\ svcBot = FALSE
  /\ Grid = LoadedGrid
  /\ BasePrice = 2000
  /\ LastETHPrice = 0
  /\ priceRec = 0
  /\ TradesExecuted = 0
  /\ running = FALSE
  /\ stopCloses = 0
  /\ rpcCloses = 0
  /\ wallet = NewPaperWallet(PaperInitialETH, PaperInitialUSDC)
  /\ runPc = "none"
  /\ curPrice = 0
  /\ trig = NoTrig
  /\ tickErr = "none"
  /\ tickerPending = FALSE
  /\ igPc = [a \in Actors |-> "idle"]
  /\ igCenter = [a \in Actors |-> 0]
  /\ igMid = [a \in Actors |-> 0]
  /\ dbState = SavedState(LoadedGrid, 0, TRUE)
  /\ dbTrades = 0
  /\ swaps = 0
  /\ tripped = FALSE
  /\ rebuilds = 0
  /\ igBefore = NoBefore

InitRestart ==
  /\ RestartInit /\ StartInit /\ SaveIdle /\ PaperIdle /\ SchedInit /\ RestIdle

SpecRestart == InitRestart /\ [][BotNext]_vars

InitRetry ==
  /\ BotIdle /\ StartInit /\ SaveIdle /\ PaperIdle /\ SchedInit
  /\ PureIdle /\ FetchInit /\ SnapIdle /\ RetryInit /\ DuneIdle
  /\ WalletInit /\ EngineIdle

SpecRetry == InitRetry /\ [][RetryNext]_vars

InitDune ==
  /\ BotIdle /\ StartInit /\ SaveIdle /\ PaperIdle /\ SchedInit
  /\ PureIdle /\ FetchInit /\ SnapIdle /\ RetryIdle /\ DuneInit
  /\ WalletInit /\ EngineIdle

SpecDune == InitDune /\ [][DuneNext]_vars

InitWallet ==
  /\ BotIdle /\ StartInit /\ SaveIdle /\ PaperIdle /\ SchedInit
  /\ PureIdle /\ FetchInit /\ SnapIdle /\ RetryIdle /\ DuneIdle
  /\ WalletInit /\ EngineIdle

SpecWallet == InitWallet /\ [][WalletNext]_vars

InitEngine ==
  /\ BotIdle /\ StartInit /\ SaveIdle /\ PaperIdle /\ SchedInit
  /\ PureIdle /\ FetchInit /\ SnapIdle /\ RetryIdle /\ DuneIdle
  /\ WalletInit /\ EngineInit

SpecEngine == InitEngine /\ [][EngineNext]_vars

InitSnap == BotInit /\ StartInit /\ SaveIdle /\ PaperIdle /\ SchedInit /\ RestIdle

SpecSnap == InitSnap /\ [][SnapNext]_vars

SpecPure == InitPure /\ [][PureNext]_vars


-----------------------------------------------------------------------------
(* The properties *)

\* C1: a scheduler-triggered rebuild never replaces the bot's grid while a
\* tick is between FindTriggeredLevel's hit and the end of its level-mutation
\* sequence (mark filled, persist, opposite reset).
C1_RebuildExcludesTick ==
  [][(igPc["sched"] = "install" /\ igPc'["sched"] = "idle"
        /\ Len(Grid') > 0 /\ igCenter["sched"] > 0)
       => runPc \notin ExecPcs]_vars

\* C2: the step of a tick in which the swap succeeds leaves the triggered
\* level filled, with filledAt and txHash set, in the bot's current grid, and
\* tradesExecuted one higher, in every interleaving with rebuilds.
C2_FillRecordedInCurrentGrid ==
  [][(runPc = "swap" /\ runPc' = "save")
       => /\ Grid'[trig.idx + 1].filled
          /\ Grid'[trig.idx + 1].filledAt # 0
          /\ Grid'[trig.idx + 1].txHash # 0
          /\ TradesExecuted' = TradesExecuted + 1]_vars

\* C3: once the circuit breaker has tripped, Run's select never starts
\* another tick, whichever of its ready cases it takes.
C3_TripIsTerminal ==
  [][tripped => ~(runPc = "select" /\ runPc' = "tick")]_vars

\* C4: at most one tick is in flight, for any sequence of Service.Start and
\* Service.Stop calls.
C4_AtMostOneTick == Cardinality({b \in Bots : bPc[b] = "tick"}) <= 1

\* C5: the bot's stop channel is closed at most once and the RPC handle is
\* closed at most once, in any interleaving of Stop, the run loop and a
\* circuit-breaker trip.
C5_ClosedAtMostOnce == stopCloses <= 1 /\ rpcCloses <= 1

\* C6: when the process's shutdown sequence has completed, no tick is left
\* inside its execution sequence (persist grid state, append the Trade
\* record, opposite-level reset).
C6_TickFinishesBeforeExit ==
  mainPc = "exited" => runPc \notin {"save", "record", "resetSave"}

\* C7: a trade the guardian's PreTradeCheck rejects is skipped.  The step
\* that leaves the check goes to the swap only when the position size and
\* the daily count allow the trade; a rejection ends the tick at once (no
\* cooldown), reported, with the wallet, the grid, tradesExecuted, the swap
\* count and the Trade records as they were; and balances, fills and Trade
\* records change only in the steps that follow an accepted check.
C7_RejectedTradeIsSkipped ==
  [][/\ (runPc = "pretrade" /\ runPc' # "pretrade")
          => /\ runPc' \in {"swap", "select"}
             /\ runPc' = "swap"
                  => PreTradeCheck(ValueOf(trig.quantity, curPrice),
                                   dbTrades, FALSE) = "ok"
             /\ runPc' = "select"
                  => /\ tickErr' = "rejected"
                     /\ wallet' = wallet
                     /\ Grid' = Grid
                     /\ TradesExecuted' = TradesExecuted
                     /\ swaps' = swaps
                     /\ dbTrades' = dbTrades
     /\ (wallet' # wallet \/ swaps' # swaps
           \/ TradesExecuted' # TradesExecuted) => runPc = "swap"
     /\ dbTrades' # dbTrades => runPc = "record"]_vars

\* C7: a tick has ended on a rejection, before any trade.
C7_Witness ==
  /\ runPc = "select"
  /\ tickErr = "rejected"
  /\ swaps = 0
  /\ dbTrades = 0
  /\ wallet = NewPaperWallet(PaperInitialETH, PaperInitialUSDC)

\* C8: once a Save has committed, exactly one row is active, also when two
\* Saves run concurrently.
C8_ExactlyOneActiveRow == saved > 0 => Cardinality(ActiveRows) = 1

\* C9: after any sequence of paper swaps both balances are non-negative and
\* the number of recorded trades has not gone down.
C9_BalancesNonNegative ==
  /\ pw.eth >= 0
  /\ pw.usdc >= 0
  /\ pw.trades >= pwPrev

\* C10: at most one fetchAndProcess of the scheduler is in flight.
C10_AtMostOneFetch == FetchesInFlight <= 1


\* C11: Start on a running scheduler spawns no task and Stop on a stopped
\* one closes nothing.  Tasks and stop channels are created together, one
\* of each, only by a Start that finds the scheduler stopped; a channel is
\* closed only by a Stop that finds it running and is never reopened; a
\* call that finds nothing to do changes nothing; and Running() is true
\* after a Start and false after a Stop.
C11_StartStopNoOps ==
  [][/\ (Len(schTick') # Len(schTick) \/ Len(schInit') # Len(schInit)
           \/ Len(schChans') # Len(schChans))
          => /\ ~Running /\ schLast' = "start"
             /\ Len(schTick') = Len(schTick) + 1
             /\ Len(schInit') = Len(schInit) + 1
             /\ Len(schChans') = Len(schChans) + 1
     /\ \A g \in Gens :
          /\ schChans[g] => schChans'[g]
          /\ (~schChans[g] /\ schChans'[g])
               => Running /\ g = Len(schChans) /\ schLast' = "stop"
     /\ (schLast' \in {"startNoop", "stopNoop"} /\ schLast' # schLast)
          => UNCHANGED <<schRunning, schChans, schInit, schTick, schManual,
                         schEvent, schWait>>
     /\ schLast' \in {"start", "startNoop"} => Running'
     /\ schLast' \in {"stop", "stopNoop"} => ~Running']_vars

\* C11: a Start has found the scheduler running, with the one task pair of
\* the first Start.
C11_WitnessStartNoop ==
  schLast = "startNoop" /\ Len(schTick) = 1 /\ Len(schInit) = 1 /\ Running

\* C12: once the stop channel a ticker goroutine was started with is closed,
\* that goroutine starts no new fetch.
C12_NoFetchAfterStop ==
  [][\A g \in Gens :
       (schChans[g] /\ schTick[g] # "fetch") => schTick'[g] # "fetch"]_vars

C13_RebuildDecision ==
  (fp.pc = "done")
    => LET g == fp.bot.Grid
           drift == \/ ~fp.previous.present
                    \/ /\ fp.previous.Midpoint > 0
                       /\ Abs(fp.Midpoint - fp.previous.Midpoint) * 100
                            >= SRChangeThreshold * fp.previous.Midpoint
           outside == /\ fp.bot.present /\ Len(g) > 0
                      /\ fp.bot.LastETHPrice > 0
                      /\ \/ \A k \in DOMAIN g : fp.bot.LastETHPrice < g[k].price
                         \/ \A k \in DOMAIN g : fp.bot.LastETHPrice > g[k].price
           sideFilled(sd) ==
             /\ \E k \in DOMAIN g : g[k].side = sd
             /\ \A k \in DOMAIN g : g[k].side = sd => g[k].filled
           allFilled == /\ fp.bot.present /\ Len(g) > 0
                        /\ (sideFilled("buy") \/ sideFilled("sell"))
       IN /\ fp.shouldRecalculate <=> (drift \/ outside \/ allFilled)
          /\ fp.recorded
          /\ srRows[Len(srRows)] = [Midpoint |-> fp.Midpoint,
                                    GridRecalculated |-> fp.shouldRecalculate]
          /\ fp.shouldRecalculate
               <=> (\E i \in DOMAIN fp.calls : fp.calls[i] = "OnGridRecalculate")

\* C14: when a fetchAndProcess whose S/R fetch gave a result returns, it
\* has called OnSRUpdate exactly once, before any OnGridRecalculate.
C14_OnSRUpdateOnceFirst ==
  (fp.pc = "done")
    => /\ Cardinality({i \in DOMAIN fp.calls : fp.calls[i] = "OnSRUpdate"}) = 1
       /\ fp.calls[1] = "OnSRUpdate"

\* C15: the step that completes a successful rebuild requested by the
\* scheduler leaves basePrice equal to the S/R midpoint that rebuild
\* fetched, a grid of the configured number of levels around it, every
\* level unfilled, and tradesExecuted as it was.
C15_RebuildFromFreshMidpoint ==
  [][(igPc["sched"] = "install" /\ igPc'["sched"] = "idle"
        /\ igCenter["sched"] > 0 /\ igMid["sched"] > 0)
       => /\ BasePrice' = igMid["sched"]
          /\ Grid' = CalculateGridLevels(igMid["sched"], GridLevels,
                                         GridSpacingPercent, AmountPerGrid)
          /\ Len(Grid') = GridLevels
          /\ \A k \in DOMAIN Grid' : ~Grid'[k].filled
          /\ TradesExecuted' = TradesExecuted]_vars

\* C16: BotState takes its copy of the grid and the last price only while
\* no tick is between marking a level filled and resetting the opposite
\* one, and no InitializeGrid is between its price fetch and the
\* replacement of the grid.
C16_SnapshotTakenAtRest ==
  [][snap' # snap
       => /\ runPc \notin {"save", "record"}
          /\ \A a \in Actors : igPc[a] # "install"]_vars

\* C18: FindTriggeredLevel returns the unfilled level of lowest index whose
\* side and price the current price satisfies (buy: price at or below the
\* level, sell: at or above), and no level when there is none; a filled
\* level is never returned.
C18_LowestUnfilledTriggered ==
  (pure.done /\ pure.fn = "FindTriggeredLevel")
    => LET g == pure.grid
           P == pure.currentPrice
           fits(k) == /\ ~g[k].filled
                      /\ \/ g[k].side = "buy" /\ P <= g[k].price
                         \/ g[k].side = "sell" /\ P >= g[k].price
       IN IF \E k \in DOMAIN g : fits(k)
          THEN /\ pure.out \in 0..(Len(g) - 1)
               /\ fits(pure.out + 1)
               /\ \A k \in DOMAIN g : fits(k) => pure.out + 1 <= k
          ELSE pure.out = NoLevel

\* C18: a filled level that the price satisfies was passed over for a
\* later unfilled one.
C18_WitnessSkipsFilled ==
  /\ pure.done /\ pure.fn = "FindTriggeredLevel"
  /\ Len(pure.grid) = 3 /\ pure.out = 1
  /\ pure.grid[1].filled /\ pure.grid[1].side = "buy"
  /\ pure.currentPrice <= pure.grid[1].price
  /\ pure.grid[3].side = "buy" /\ ~pure.grid[3].filled
  /\ pure.currentPrice <= pure.grid[3].price

\* C19: resetOppositeLevel for level k looks at index k + 1 for a buy and
\* k - 1 for a sell; when that index is in the grid and the level there is
\* filled, that level alone becomes unfilled with filledAt and txHash
\* cleared; otherwise the grid is unchanged.
C19_OppositeLevelReset ==
  (pure.done /\ pure.fn = "resetOppositeLevel")
    => LET g == pure.grid
           k == pure.level
           o == IF g[k + 1].side = "buy" THEN k + 1 ELSE k - 1
           hit == o >= 0 /\ o < Len(g) /\ g[o + 1].filled
       IN /\ Len(pure.out) = Len(g)
          /\ \A j \in DOMAIN g : (~hit \/ j # o + 1) => pure.out[j] = g[j]
          /\ hit => /\ ~pure.out[o + 1].filled
                    /\ pure.out[o + 1].filledAt = 0
                    /\ pure.out[o + 1].txHash = 0
                    /\ pure.out[o + 1].index = g[o + 1].index
                    /\ pure.out[o + 1].price = g[o + 1].price
                    /\ pure.out[o + 1].side = g[o + 1].side
                    /\ pure.out[o + 1].quantity = g[o + 1].quantity

\* C19: a sell at index 1 has reopened the filled level at index 0 and left
\* the filled level at index 2 alone.
C19_WitnessReset ==
  /\ pure.done /\ pure.fn = "resetOppositeLevel"
  /\ Len(pure.grid) = 3 /\ pure.level = 1 /\ pure.grid[2].side = "sell"
  /\ pure.grid[1].filled /\ pure.grid[3].filled
  /\ ~pure.out[1].filled /\ pure.out[3].filled

\* C20: for a positive center, a level count of at least 2, a positive
\* spacing and a positive amount, CalculateGridLevels returns exactly that
\* many levels, with positive prices, strictly ascending, each level's
\* index its position, all unfilled; for any other input it returns an
\* error and no grid.
C20_GridWellFormed ==
  (pure.done /\ pure.fn = "CalculateGridLevels")
    => LET g == pure.out
           valid == /\ pure.CenterPrice > 0 /\ pure.LevelCount >= 2
                    /\ pure.SpacingPercent > 0 /\ pure.AmountPerGrid > 0
       IN IF valid
          THEN /\ Len(g) = pure.LevelCount
               /\ \A k \in DOMAIN g :
                    /\ g[k].price > 0
                    /\ g[k].index = k - 1
                    /\ ~g[k].filled
               /\ \A k \in 1..(Len(g) - 1) : g[k].price < g[k + 1].price
          ELSE g = <<>>

\* C20: an even count (4 around 2000) has given four levels and none at
\* the center.
C20_WitnessEvenCount ==
  /\ pure.done /\ pure.fn = "CalculateGridLevels"
  /\ pure.CenterPrice = 2000 /\ pure.LevelCount = 4
  /\ pure.SpacingPercent = GridSpacingPercent
  /\ Len(pure.out) = 4
  /\ \A k \in DOMAIN pure.out : pure.out[k].price # 2000

\* C21: in every grid CalculateGridLevels returns, each buy level is priced
\* strictly below the center and each sell level strictly above it, and
\* there are exactly floor(n / 2) buy levels.
C21_SidesAroundCenter ==
  (pure.done /\ pure.fn = "CalculateGridLevels" /\ pure.out # <<>>)
    => LET g == pure.out
       IN /\ \A k \in DOMAIN g :
               /\ g[k].side = "buy" => g[k].price < pure.CenterPrice
               /\ g[k].side = "sell" => g[k].price > pure.CenterPrice
          /\ Cardinality({k \in DOMAIN g : g[k].side = "buy"})
               = pure.LevelCount \div 2

\* C22: the stored last price and the last price given to the price
\* history are 0 (nothing accepted yet) or within [100, 100000]; a tick
\* works with the stored last price; and a tick that has no accepted price
\* returns without a risk check and without a trade.
C22_OnlySanePrices ==
  /\ [](/\ LastETHPrice = 0
           \/ (LastETHPrice >= MinSanePrice /\ LastETHPrice <= MaxSanePrice)
        /\ priceRec = LastETHPrice)
  /\ [][/\ (runPc = "tick" /\ runPc' # "tick" /\ LastETHPrice' = 0)
            => /\ runPc' = "select"
               /\ UNCHANGED <<Grid, wallet, TradesExecuted, swaps, dbTrades,
                              dbState, tripped, stopCloses, running, trig,
                              curPrice>>
        /\ (runPc = "tick" /\ runPc' = "pretrade")
            => /\ curPrice' = LastETHPrice'
               /\ curPrice' >= MinSanePrice /\ curPrice' <= MaxSanePrice]_vars

\* C22: a tick of a bot restarted on a saved grid has returned with no
\* price accepted so far.
C22_WitnessTickWithoutPrice ==
  /\ runPc = "select" /\ LastETHPrice = 0 /\ Len(Grid) > 0
  /\ swaps = 0 /\ ~tripped

\* C23: Do never makes an attempt after a response below 500 and returns
\* that response; when every attempt failed (5xx or transport error) and
\* the context stayed alive, it has made exactly maxAttempts attempts (3
\* for maxAttempts <= 0) and returns the error with the last cause and
\* that count; the request factory is called once per attempt.
C23_RetryUntilBelow500 ==
  LET n == Len(rt.seen)
      asked == IF rt.cfg <= 0 THEN 3 ELSE rt.cfg
  IN /\ \A i \in 1..(n - 1) : Failed(rt.seen[i])
     /\ rt.builds \in {n, n + 1}
     /\ n <= asked
     /\ rt.pc = "returned"
          => /\ rt.result = "response"
                  <=> (n > 0 /\ ~Failed(rt.seen[n]))
             /\ rt.result # "buildErr" => rt.builds = n
             /\ rt.result = "allFailed"
                  => /\ n = asked /\ rt.count = n
                     /\ rt.lastErr = rt.seen[n]
             /\ (rt.result \notin {"buildErr", "canceled", "deadline"}
                   /\ \A i \in 1..n : Failed(rt.seen[i]))
                  => rt.result = "allFailed" /\ n = asked
     /\ (rt.pc = "returned" /\ rt.result = "response" /\ n = 1)
          => rt.builds = 1

\* C23: a call with maxAttempts 0 has failed three times and given up.
C23_WitnessDefaultAttempts ==
  /\ rt.pc = "returned" /\ rt.result = "allFailed"
  /\ rt.cfg = 0 /\ Len(rt.seen) = 3 /\ rt.count = 3
  /\ rt.seen[1] = 503 /\ rt.seen[3] = 0

\* C24: a Do whose context ends while it waits between two attempts
\* returns the context's error, and makes no further attempt.
C24_CancelInBackoff ==
  [][(rt.pc = "backoff" /\ rt'.ctx # "live")
       => /\ rt'.pc = "returned"
          /\ rt'.result = rt'.ctx
          /\ rt'.result \notin {"allFailed", "response"}
          /\ rt'.seen = rt.seen /\ rt'.builds = rt.builds]_vars
     /\ [][rt.pc = "returned" => rt' = rt]_vars

\* C24: a call was cancelled in its second backoff.
C24_WitnessCancelled ==
  /\ rt.pc = "returned" /\ rt.result = "canceled" /\ rt.inBackoff
  /\ Len(rt.seen) = 2

\* C25: a FetchSupportResistance without forceRefresh that finds a cached
\* result younger than the TTL returns a copy of it and sends no query;
\* with forceRefresh, or with an empty or stale cache, it sends a query;
\* a query that succeeds replaces the cached result and its time, and
\* NeedsRefresh() is false right after.
C25_CacheWithinTTL ==
  [][\A c \in DuneCallers :
       /\ (dune.call[c].pc = "idle" /\ dune'.call[c] # dune.call[c])
            => LET fresh == /\ dune.cachedResult # 0
                            /\ dune.now - dune.lastFetch < dune.cacheTTL
                   hit == ~dune'.call[c].force /\ fresh
               IN /\ hit => /\ dune'.call[c].pc = "idle"
                            /\ ~dune'.call[c].err
                            /\ dune'.call[c].out = dune.cachedResult
                            /\ dune'.call[c].copied
                            /\ dune'.queries = dune.queries
                  /\ ~hit => /\ dune'.call[c].pc = "query"
                             /\ dune'.queries = dune.queries + 1
                  /\ dune'.cachedResult = dune.cachedResult
                  /\ dune'.lastFetch = dune.lastFetch
       /\ (dune.call[c].pc = "query" /\ dune'.call[c].pc = "idle"
             /\ ~dune'.call[c].err)
            => /\ dune'.cachedResult = dune'.call[c].out
               /\ dune'.cachedResult # 0
               /\ dune'.lastFetch = dune'.now
               /\ ~NeedsRefresh(dune')]_vars

\* C25: the run loop was served from a cache an hour old while the
\* scheduler's forced refresh was still querying.
C25_WitnessCacheHit ==
  /\ dune.call["bot"].copied /\ dune.call["bot"].out = 2000
  /\ dune.now - dune.lastFetch = 1 /\ dune.cacheTTL = 2
  /\ dune.call["sched"].pc = "query" /\ dune.call["sched"].force

\* C26: with a trade counter, PreTradeCheck blocks exactly when the position
\* limit is positive and the trade exceeds it, or the daily limit is
\* positive and the counter fails or has reached it; a trade blocked for
\* its size never reaches the counter.
C26_PreTradeBlocks ==
  (pure.fn = "PreTradeCheck" /\ pure.done /\ ~pure.counter.nil)
    => LET maxPositionUsd == pure.limits.MaxPositionSizeUSD
           maxDailyTrades == pure.limits.MaxDailyTrades
           tooBig == maxPositionUsd > 0 /\ pure.tradeUSDValue > maxPositionUsd
           tooMany == /\ maxDailyTrades > 0
                      /\ \/ pure.counter.err
                         \/ pure.counter.count >= maxDailyTrades
       IN /\ pure.out.err # "none" <=> (tooBig \/ tooMany)
          /\ tooBig => pure.out.err = "position" /\ ~pure.out.counted
          /\ maxDailyTrades = 0 => ~pure.out.counted

\* C26: a trade within the position limit was blocked with the day's count
\* exactly at the daily limit.
C26_WitnessDailyLimit ==
  /\ pure.fn = "PreTradeCheck" /\ pure.done
  /\ pure.limits.MaxDailyTrades = 2 /\ ~pure.counter.nil
  /\ pure.counter.count = 2 /\ pure.tradeUSDValue = 500
  /\ pure.limits.MaxPositionSizeUSD = 500
  /\ pure.out.err = "daily"

\* C27: PortfolioCheck trips exactly when the stop-loss is positive and the
\* P&L is at or below minus it, or the take-profit is positive and the P&L
\* is at or above it.
C27_PortfolioTrips ==
  (pure.fn = "PortfolioCheck" /\ pure.done)
    => LET stopLossPct == pure.limits.StopLossPercent
           takeProfitPct == pure.limits.TakeProfitPercent
       IN pure.out # "none"
            <=> \/ stopLossPct > 0 /\ pure.pnlPercent <= 0 - stopLossPct
                \/ takeProfitPct > 0 /\ pure.pnlPercent >= takeProfitPct

\* C27: the stop-loss tripped with the P&L exactly at minus the threshold.
C27_WitnessAtStopLoss ==
  /\ pure.fn = "PortfolioCheck" /\ pure.done
  /\ pure.limits.StopLossPercent = 10 /\ pure.pnlPercent = 0 - 10
  /\ pure.out = "stopLoss"

\* C28: TradingDay(t) is the UTC date of t from 17:00 UTC on and the UTC
\* date before it earlier in the day; one minute later the trading day is
\* another one exactly when that minute is 17:00 UTC.
C28_TradingDayCutoff ==
  (pure.fn = "TradingDay" /\ pure.done)
    => LET dayNumber == pure.ts \div 1440
           hourUtc == (pure.ts % 1440) \div 60
           minuteUtc == pure.ts % 60
           back == IF hourUtc * 60 + minuteUtc >= 1020 THEN 0 ELSE 1
       IN /\ pure.out = FormatDate(CivilFrom(2022, 1, dayNumber - back))
          /\ TradingDay(pure.ts + 1) # pure.out
               <=> (pure.ts + 1) % 1440 = 1020

\* C28: at 16:59 UTC on 2024-03-01 the trading day is 2024-02-29.
C28_WitnessBeforeCutoff ==
  /\ pure.fn = "TradingDay" /\ pure.done
  /\ pure.ts = 790 * 1440 + 1019
  /\ pure.out = 20240229

\* C29: with an API key set, a request reaches the handler behind
\* authMiddleware exactly when its path is /health or its Authorization
\* header is "Bearer " followed by the key; any other request gets 401 and
\* the handler is not invoked; with no API key every request passes.
C29_AuthGate ==
  (pure.fn \in {"authMiddleware", "ServeHTTP"} /\ pure.done)
    => LET allowed == \/ pure.apiKey = <<>>
                      \/ pure.r.Path = "/health"
                      \/ pure.r.Authorization = Bearer \o pure.apiKey
           reached == IF pure.fn = "authMiddleware" THEN pure.out.inner
                      ELSE pure.out.AllowMethods # ""
       IN /\ reached <=> allowed
          /\ ~allowed => /\ pure.out.status = 401
                         /\ ~pure.out.inner /\ ~pure.out.routed

\* C29: a header with the right key behind another scheme was turned away.
C29_WitnessWrongScheme ==
  /\ pure.fn = "authMiddleware" /\ pure.done
  /\ pure.apiKey = Key1
  /\ pure.r.Authorization = <<"B", "a", "s", "i", "c", " ">> \o Key1
  /\ pure.r.Path = "/v1/prices/today"
  /\ pure.out.status = 401 /\ ~pure.out.inner

\* C30: an OPTIONS request to an API route, served by the server's
\* handler, is answered 200 with the three Access-Control-Allow headers
\* set and reaches no route handler, with or without an API key.
C30_PreflightAnswered ==
  (pure.fn = "ServeHTTP" /\ pure.done /\ pure.r.Method = "OPTIONS"
     /\ pure.r.Path = "/v1/prices/today")
    => /\ pure.out.status = 200
       /\ pure.out.AllowOrigin # "" /\ pure.out.AllowMethods # ""
       /\ pure.out.AllowHeaders # ""
       /\ ~pure.out.routed

\* C31: while no write to grid_state has failed, the active row holds the
\* running process's paper wallet (balances, gas total, initial balances),
\* and a process that starts after one has ended takes up the wallet the
\* earlier one left.
C31_WalletInActiveRow ==
  /\ [](pwMem.up /\ ~pwMem.failed /\ pwMem.w.trades > 0
          => /\ GetActive(gsTable) # 0
             /\ LET p == gsTable[GetActive(gsTable)].paper
                IN /\ ~p.ethNull /\ ~p.initialNull
                   /\ p.eth = pwMem.w.eth /\ p.usdc = pwMem.w.usdc
                   /\ p.gas = pwMem.w.gas
                   /\ p.initialETH = pwMem.w.initialETH
                   /\ p.initialUSDC = pwMem.w.initialUSDC)
  /\ [][(~pwMem.up /\ pwMem'.up /\ ~pwMem.failed /\ pwMem.runs > 0)
          => pwMem'.w = pwMem.w]_vars

\* C32: a saveState that fails during a trade ends the tick with an error,
\* and one that fails during the grid's initialization makes Run return,
\* instead of either going on.
C32_SaveFailurePropagates ==
  [][/\ (/\ runPc = "save" /\ runPc' # "save"
         /\ dbState' = dbState
         /\ SavedState(Grid, TradesExecuted, TRUE) # dbState)
          => (tickErr' # "none" /\ runPc' = "select")
     /\ (/\ igPc["run"] = "install" /\ igPc'["run"] = "idle"
         /\ Grid' # Grid
         /\ dbState' = dbState
         /\ SavedState(Grid', TradesExecuted, TRUE) # dbState)
          => runPc' = "done"]_vars

\* C33: in every grid the ticks reach, the level a fill re-arms is of the
\* other side than the filled one: a buy fill re-arms a sell level and a
\* sell fill a buy level.
C33_RearmsOppositeSide ==
  eng.fill.rearmed # NoLevel
    => /\ eng.grid[eng.fill.rearmed + 1].side \in {"buy", "sell"}
       /\ eng.grid[eng.fill.rearmed + 1].side # eng.fill.side

\* C34: with a positive maxDailyTrades, the trades executed in the trading
\* day (every tick of a run falls in one trading day) never exceed it,
\* whether or not their Trade records could be appended.
C34_DailyLimitRespected ==
  MaxDailyTrades > 0 => swaps <= MaxDailyTrades

\* The cooldown follows a successful trade and only that (a rejected or
\* failed trade returns to the loop at once), and no trade executes while
\* the tick waits in it.
CooldownSteps ==
  [][/\ runPc = "cooldown"
          => /\ swaps' = swaps /\ wallet' = wallet /\ dbTrades' = dbTrades
             /\ runPc' \in {"cooldown", "select"}
     /\ (runPc # "cooldown" /\ runPc' = "cooldown")
          => /\ runPc \in {"record", "resetSave"}
             /\ swaps > 0
             /\ tickErr = "none"
     /\ (runPc \in {"pretrade", "swap"} /\ runPc' \notin {"pretrade", "swap"})
          => \/ runPc' = "save" /\ swaps' = swaps + 1
             \/ runPc' = "select" /\ tickErr' \in {"rejected", "swapfail"}
                  /\ swaps' = swaps]_vars

\* A tick that leaves its cooldown with the stop channel closed returns to
\* a select that can only exit: no timer event is waiting there for the
\* select to take in place of the stop.
StopInCooldownExits ==
  [][(runPc = "cooldown" /\ stopCloses > 0 /\ runPc' = "select")
       => ~tickerPending']_vars

\* C35: the cooldown follows a successful trade and only that (a rejected
\* or failed trade returns to the loop at once); while the tick waits in
\* it no trade executes; and once the stop channel is closed during the
\* cooldown, the tick ends and Run's select exits, with no other case to
\* take.
C35_Cooldown == CooldownSteps /\ StopInCooldownExits

\* The positions of a tick follow one another in the order of the code:
\* price read and triggers, PreTradeCheck, swap, saveState, Record with the
\* opposite-level reset (and its own saveState) last.
TickOrder ==
  [][runPc' # runPc /\ runPc \in {"tick"} \cup ExecPcs =>
       \/ runPc' = "select"
       \/ runPc = "tick" /\ runPc' = "pretrade"
       \/ runPc = "pretrade" /\ runPc' = "swap"
       \/ runPc = "swap" /\ runPc' = "save"
       \/ runPc = "save" /\ runPc' = "record"
       \/ runPc = "record" /\ runPc' \in {"resetSave", "cooldown"}
       \/ runPc = "resetSave" /\ runPc' = "cooldown"]_vars

\* A swap is made only by a tick that has passed PreTradeCheck.
TradeAfterRiskCheck ==
  [][/\ swaps' # swaps => runPc = "swap"
     /\ runPc' = "swap" /\ runPc # "swap"
          => /\ runPc = "pretrade"
             /\ PreTradeCheck(ValueOf(trig.quantity, curPrice), dbTrades,
                              FALSE) = "ok"]_vars

\* When the Trade record is appended, the active grid_state row holds the
\* grid with the new fill and the new trade count.
PersistBeforeAppend ==
  [][dbTrades' # dbTrades
       => /\ runPc = "record"
          /\ dbState.trades = TradesExecuted
          /\ trig.idx \in dbState.filled]_vars

\* The opposite level is reset after the append and nothing of the
\* execution follows it.
ResetLast ==
  [][(\E k \in 1..Len(Grid) :
        Len(Grid') = Len(Grid) /\ Grid[k].filled /\ ~Grid'[k].filled
          /\ igPc' = igPc)
       => runPc = "record" /\ runPc' \in {"resetSave", "cooldown"}]_vars

\* C36: a tick runs price read, risk check, trigger detection, execution,
\* grid-state persist, Trade append and opposite-level reset in sequence:
\* no swap before a passed risk check, the grid state with the new fill
\* persisted before the Trade record is appended, the reset last.
C36_TickSequence ==
  TickOrder /\ TradeAfterRiskCheck /\ PersistBeforeAppend /\ ResetLast

\* C37: after Stop and a further Start, the only recurring timer task that
\* stays live (parked in its select, waiting for timer events) is the one
\* of the latest Start: a task of an earlier Start, whose stop channel is
\* closed, never parks again, wherever Stop and Start found it.
C37_OneTimerTaskLive ==
  \A g \in Gens :
    schTick[g] = "blocked" => g = Len(schChans) /\ schWait[g] = g

\* The scheduler's rebuild takes a step,
RebuildStep == igPc'["sched"] # igPc["sched"]

\* the step in which it installs the grid it computed,
RebuildInstalls ==
  /\ igPc["sched"] = "install"
  /\ CalculateGridLevels(igCenter["sched"], GridLevels, GridSpacingPercent,
                         AmountPerGrid) # <<>>

\* the step in which it returns an error.
RebuildFails ==
  /\ igPc["sched"] \in {"price", "install"}
  /\ igPc'["sched"] = "idle"
  /\ ~RebuildInstalls

\* C38: a rebuild asked by the scheduler that fails (no valid price, or no
\* levels computed) leaves the bot's grid and BasePrice as they were when
\* it was asked: none of its steps touches the grid, and when it returns
\* its error BasePrice is what Service.InitializeGrid found (no one else
\* writes BasePrice once Run is past its own initialization).
C38_FailedRebuildKeepsGrid ==
  [][/\ (RebuildStep /\ ~RebuildInstalls) => Grid' = Grid
     /\ (RebuildFails /\ igBefore.quiet)
          => BasePrice' = igBefore.BasePrice]_vars

\* C39: a Service.Stop that finds the bot Service.Start has set up (its Run
\* goroutine spawned, however far it has got) leaves the bot's stop
\* channel closed, which is what makes Run's loop exit.
C39_StopClosesStopChannel ==
  [][(svcBot /\ ~svcBot') => stopCloses' > 0]_vars

\* a float64 field of the result is NaN
HasNaN(result) ==
  IsNaN(result.Support) \/ IsNaN(result.Resistance)
    \/ IsNaN(result.Midpoint) \/ IsNaN(result.AvgPrice)

\* what executeQuery answered makes the fetch one that fails
FailingAnswer(call) ==
  \/ call.answer \in {"error", "empty"}
  \/ /\ call.answer = "row"
     /\ HasNaN(call.row) \/ ~(call.row.Support < call.row.Resistance)

\* C40: a fetch whose query fails, gives no rows, or gives a row with a NaN
\* field or with support >= resistance returns an error and leaves the
\* cached result and its time as they were; and whatever the cache holds
\* has support < resistance and no NaN field.
C40_FailedFetchKeepsCache ==
  /\ [][\A c \in DuneCallers :
          (dune.call[c].pc = "query" /\ dune'.call[c].pc = "idle"
             /\ FailingAnswer(dune'.call[c]))
            => /\ dune'.call[c].err
               /\ dune'.cachedResult = dune.cachedResult
               /\ dune'.cachedSR = dune.cachedSR
               /\ dune'.lastFetch = dune.lastFetch]_vars
  /\ [](dune.cachedResult # 0
          => /\ dune.cachedSR.Support < dune.cachedSR.Resistance
             /\ ~HasNaN(dune.cachedSR))

=============================================================================
